---- MODULE Spec2Model ----
(***************************************************************************)
(* A model of kivg: the Kivg orchestrator (src/kivg/main.py) and the       *)
(* PenTracker marker overlay (src/kivg/drawing/pen_tracker.py).            *)
(*                                                                         *)
(* Two specifications share the variables:                                 *)
(*   SpecPen  one PenTracker driven through its public methods and by the  *)
(*            host clock's exit ticks, the callbacks being test mocks;     *)
(*   Spec     one Kivg driven by draw / shape_animate calls and by the     *)
(*            host clock (animation ticks and exit ticks).                 *)
(*                                                                         *)
(* Floats are modelled as scaled integers: the slide progress counts in    *)
(* units of 1/SlideUnits, positions and opacities in units of 1/PosScale,  *)
(* so that -t*(t-2) is exact at every progress value of the model.         *)
(***************************************************************************)
EXTENDS Integers, Sequences, FiniteSets, TLC

VARIABLES
    trackers,          \* every PenTracker constructed so far, by index
    mocks,             \* the test callbacks handed to slide_out (SpecPen)
    lastOp,            \* the operation that produced the current state
    _pen_tracker,      \* Kivg._pen_tracker: 0 (None) or an index of trackers
    _show_hand,        \* Kivg._show_hand
    _current_pen_pos,  \* Kivg._current_pen_pos: NoPos (None) or a point
    all_anim,          \* Kivg.all_anim: list of (id_, animation)
    curr_count,        \* Kivg.curr_count
    prev_shapes,       \* Kivg.prev_shapes: the settled list
    curr_shape,        \* Kivg.curr_shape: the active shape
    curr_id,           \* Kivg.curr_id (set by setattr)
    curr_clr,          \* Kivg.curr_clr (set by setattr)
    widget_props,      \* the widget's animated properties, per shape id
    running,           \* the animations running on the widget
    session,           \* number of draw / shape_animate calls made so far
    user_done,         \* calls of the caller's on_complete, per session
    completed,         \* the live session's animations that have completed
    live_call,         \* the call that opened the live session
    _previous_svg_file,\* Kivg._previous_svg_file: the file the document is of
    document,          \* Kivg.svg_size, .closed_shapes and .path
    calls,             \* the Kivg's handlers the last step ran, in order
    pure               \* a call of a pure function: its inputs and its result

vars == <<trackers, mocks, lastOp, _pen_tracker, _show_hand, _current_pen_pos,
          all_anim, curr_count, prev_shapes, curr_shape, curr_id, curr_clr,
          widget_props, running, session, user_done, completed, live_call,
          _previous_svg_file, document, calls, pure>>

kivgVars == <<_pen_tracker, _show_hand, all_anim, curr_count, prev_shapes,
              curr_shape, curr_id, curr_clr, widget_props, running, session,
              user_done, completed, live_call, _previous_svg_file, document,
              calls, pure>>

(***************************************************************************)
(* Bounds of the model.                                                    *)
(***************************************************************************)
SlideUnits == 3    \* exit-animation progress is counted in 1/SlideUnits
MaxGroups  == 2    \* marker graphics groups one tracker may have attached
MaxEvents  == 2    \* exit-tick subscriptions one tracker may have scheduled
MaxCb      == 2    \* slide_out calls (each with its own test callback) in one run
MaxCalls   == 2    \* draw / shape_animate calls in one run
MaxCfg     == 2    \* length of an anim_config_list
AnimSteps  == 2    \* host ticks one animation phase takes

(***************************************************************************)
(* Program constants.                                                      *)
(***************************************************************************)
HandH      == 100  \* hand_size[1]
PenOffsetX == 10   \* pen_offset[0]
PenOffsetY == 85   \* pen_offset[1]
WidgetPosY == 100  \* widget.pos[1]

PosScale == SlideUnits * SlideUnits

NoCb    == 0       \* on_complete=None
NoGroup == 0       \* _hand_group is None
NoEvent == 0       \* _slide_out_event is None
NoColor == -1      \* _hand_color is None
NoPos   == <<>>    \* _current_pen_pos is None
OnHandSlideComplete == -2   \* the bound method Kivg._on_hand_slide_complete

CbIds == 1..MaxCb

\* dt / duration of an exit tick, in progress units: a tick on time, a late one.
Dts == {1, 2}

\* The pen tips handed to update_position (source units).
Tips == {<<200, 200>>, <<150, 300>>}

Min(S) == CHOOSE x \in S : \A y \in S : x <= y

(***************************************************************************)
(* PenTracker                                                              *)
(***************************************************************************)

\* PenTracker.__init__ followed by _load_hand_texture: tex says whether the
\* marker image could be loaded.  attached / scheduled are the tracker's
\* footprint outside itself: its groups in widget.canvas.after and its
\* subscriptions in the Clock.
PenTracker(tex) ==
    [ _hand_texture       |-> tex,
      _hand_group         |-> NoGroup,
      _hand_color         |-> NoColor,
      _is_active          |-> FALSE,
      _current_pos        |-> <<0, 0>>,
      _slide_out_event    |-> NoEvent,
      _slide_out_callback |-> NoCb,
      _slide_start_pos    |-> <<0, 0>>,
      _slide_target_pos   |-> <<0, 0>>,
      _slide_progress     |-> 0,
      attached            |-> {},
      scheduled           |-> {} ]

\* A fresh InstructionGroup: an object distinct from every attached one.
FreeGroups(t) == (1..MaxGroups) \ t.attached
\* A fresh ClockEvent: an object distinct from every scheduled one.
FreeEvents(t) == (1..MaxEvents) \ t.scheduled

is_active(t) == t._is_active

current_position(t) == t._current_pos

\* start without the check of the texture.
start_NoTextureCheck(t) ==
    LET g == Min(FreeGroups(t)) IN
    [t EXCEPT !._is_active  = TRUE,
              !._hand_group = g,
              !._hand_color = PosScale,
              !.attached    = @ \cup {g}]

start(t) ==
    IF ~t._hand_texture THEN t
    ELSE LET g == Min(FreeGroups(t)) IN
         [t EXCEPT !._is_active  = TRUE,
                   !._hand_group = g,
                   !._hand_color = PosScale,
                   !.attached    = @ \cup {g}]

clear_hand(t) ==
    IF t._hand_group # NoGroup
    THEN [t EXCEPT !.attached    = @ \ {t._hand_group},
                   !._hand_group = NoGroup,
                   !._hand_color = NoColor]
    ELSE t

stop(t) ==
    clear_hand([t EXCEPT
        !.scheduled           = IF t._slide_out_event # NoEvent
                                THEN @ \ {t._slide_out_event} ELSE @,
        !._slide_out_event    = NoEvent,
        !._slide_out_callback = NoCb,
        !._is_active          = FALSE])

\* update_position that puts the marker at the pen tip, without the offset.
update_position_NoOffset(t, x, y) ==
    IF ~t._is_active \/ ~t._hand_texture THEN t
    ELSE [t EXCEPT !._current_pos = <<x * PosScale, y * PosScale>>]

update_position(t, x, y) ==
    IF ~t._is_active \/ ~t._hand_texture THEN t
    ELSE [t EXCEPT !._current_pos =
              <<(x - PenOffsetX) * PosScale, (y - PenOffsetY) * PosScale>>]

\* slide_out that returns at once when the tracker is not active, without
\* calling on_complete.
slide_out_NoSyncCallback(t, on_complete) ==
    IF ~t._is_active \/ ~t._hand_texture
    THEN [trk |-> t, fired |-> NoCb]
    ELSE LET e == Min(FreeEvents(t))
             widget_bottom == (WidgetPosY - HandH) * PosScale
         IN [trk |-> [t EXCEPT
                 !._slide_out_callback = on_complete,
                 !._slide_start_pos    = t._current_pos,
                 !._slide_target_pos   = <<t._current_pos[1], widget_bottom>>,
                 !._slide_progress     = 0,
                 !._slide_out_event    = e,
                 !.scheduled           = @ \cup {e}],
             fired |-> NoCb]

\* slide_out returns the tracker after the call and the callback the call
\* invoked synchronously (NoCb when it invoked none).
slide_out(t, on_complete) ==
    IF ~t._is_active \/ ~t._hand_texture
    THEN [trk |-> t, fired |-> on_complete]
    ELSE LET e == Min(FreeEvents(t))
             widget_bottom == (WidgetPosY - HandH) * PosScale
         IN [trk |-> [t EXCEPT
                 !._slide_out_callback = on_complete,
                 !._slide_start_pos    = t._current_pos,
                 !._slide_target_pos   = <<t._current_pos[1], widget_bottom>>,
                 !._slide_progress     = 0,
                 !._slide_out_event    = e,
                 !.scheduled           = @ \cup {e}],
             fired |-> NoCb]

_finish_slide_out(t) ==
    [trk |-> clear_hand([t EXCEPT
                 !.scheduled           = IF t._slide_out_event # NoEvent
                                         THEN @ \ {t._slide_out_event} ELSE @,
                 !._slide_out_event    = NoEvent,
                 !._is_active          = FALSE,
                 !._slide_out_callback = NoCb]),
     fired |-> t._slide_out_callback]

\* A linear ease: t at t = p/SlideUnits, in units of 1/PosScale.
Ease_Linear(p) == p * SlideUnits

\* -t*(t-2) at t = p/SlideUnits, in units of 1/PosScale.
Ease(p) == 2 * p * SlideUnits - p * p

\* start + (target - start) * ease, the product rounded down to the unit.
Lerp(a, b, ease) == a + ((b - a) * ease) \div PosScale

\* _update_slide_out(dt): cont is the value returned to the Clock.
_update_slide_out(t, dt) ==
    LET p == t._slide_progress + dt IN
    IF p >= SlideUnits
    THEN LET f == _finish_slide_out([t EXCEPT !._slide_progress = SlideUnits])
         IN [trk |-> f.trk, fired |-> f.fired, cont |-> FALSE]
    ELSE [trk |-> [t EXCEPT
              !._slide_progress = p,
              !._current_pos =
                  <<Lerp(t._slide_start_pos[1], t._slide_target_pos[1], Ease(p)),
                    Lerp(t._slide_start_pos[2], t._slide_target_pos[2], Ease(p))>>,
              !._hand_color = IF t._hand_color # NoColor
                              THEN PosScale - Ease(p) ELSE @],
          fired |-> NoCb, cont |-> TRUE]

\* The Clock runs subscription e of a tracker: a callback that returns False
\* is unscheduled.
ClockFire(t, e, dt) ==
    LET r == _update_slide_out(t, dt) IN
    [trk   |-> IF r.cont THEN r.trk
               ELSE [r.trk EXCEPT !.scheduled = @ \ {e}],
     fired |-> r.fired, cont |-> r.cont]

(***************************************************************************)
(* Test callbacks (MagicMock), one per slide_out call of a run: how often  *)
(* it was called, whether its slide_out call was made ("no" before the     *)
(* call) with the tracker active or inactive, whether the call handed it   *)
(* over (given) or passed on_complete=None, and how often it had been      *)
(* called when stop() was first called after that slide_out call           *)
(* (NotStopped before).                                                    *)
(***************************************************************************)
NotStopped == -1

NewMock == [calls |-> 0, passed |-> "no", given |-> FALSE, stopped_at |-> NotStopped]

Call(m, cb) ==
    IF cb \in DOMAIN m THEN [m EXCEPT ![cb].calls = @ + 1] ELSE m

Pass(m, c, given, how) ==
    [m EXCEPT ![c].passed = how, ![c].given = given]

MarkStopped(m) ==
    [c \in DOMAIN m |->
        IF m[c].passed # "no" /\ m[c].stopped_at = NotStopped
        THEN [m[c] EXCEPT !.stopped_at = m[c].calls] ELSE m[c]]

\* The test callback of the next slide_out call; none when all were used.
FreshCb == {c \in CbIds : mocks[c].passed = "no" /\
                          \A d \in CbIds : d < c => mocks[d].passed # "no"}

\* lastOp: the operation, its argument (the callback of a slide_out, the
\* tip of an update_position, the tracker of an exit tick, the session of a call or of a ticked animation),
\* the callback it invoked, and whether it ended an animation.
Op(name, arg, fired, fin) ==
    [op |-> name, arg |-> arg, fired |-> fired, fin |-> fin]

(***************************************************************************)
(* Kivg                                                                    *)
(***************************************************************************)
\* The shapes of the loaded document, in document order.
ShapeIds == {1, 2}

\* closed_shapes[id_]["color"]: every shape of the document has its colour.
Color(id) == 10 + id

\* No exception has left the method.
NotRaised == "none"

\* The state the methods below read and write, as one value, so that a
\* handler that calls other methods composes them in program order.
World ==
    [ trackers         |-> trackers,
      mocks            |-> mocks,
      _pen_tracker     |-> _pen_tracker,
      _show_hand       |-> _show_hand,
      _current_pen_pos |-> _current_pen_pos,
      all_anim         |-> all_anim,
      curr_count       |-> curr_count,
      prev_shapes      |-> prev_shapes,
      curr_shape       |-> curr_shape,
      curr_id          |-> curr_id,
      curr_clr         |-> curr_clr,
      widget_props     |-> widget_props,
      running          |-> running,
      user_done        |-> user_done,
      _previous_svg_file |-> _previous_svg_file,
      document         |-> document,
      calls            |-> <<>>,
      raised           |-> NotRaised ]

\* A tracker the Kivg no longer holds, with nothing on the canvas and nothing
\* in the Clock, is unreachable: it is garbage, and one value stands for it.
Collect(w) ==
    [i \in DOMAIN w.trackers |->
        IF i # w._pen_tracker /\ w.trackers[i].attached = {}
                              /\ w.trackers[i].scheduled = {}
        THEN PenTracker(FALSE) ELSE w.trackers[i]]

Commit(w) ==
    /\ trackers' = Collect(w)
    /\ mocks' = w.mocks
    /\ _pen_tracker' = w._pen_tracker
    /\ _show_hand' = w._show_hand
    /\ _current_pen_pos' = w._current_pen_pos
    /\ all_anim' = w.all_anim
    /\ curr_count' = w.curr_count
    /\ prev_shapes' = w.prev_shapes
    /\ curr_shape' = w.curr_shape
    /\ curr_id' = w.curr_id
    /\ curr_clr' = w.curr_clr
    /\ widget_props' = w.widget_props
    /\ running' = w.running
    /\ user_done' = w.user_done
    /\ _previous_svg_file' = w._previous_svg_file
    /\ document' = w.document
    /\ calls' = w.calls
    /\ pure' = pure

\* No pure function is under check.
NoCall == [fn |-> "none"]

\* _previous_svg_file = "": no file is cached, and the document is empty.
NoFile == ""

\* The files a caller names: a well-formed SVG file, and one whose path
\* string is malformed.  TempSvg is the file draw_text writes the text to
\* (well-formed; one name stands for every temporary file, a document being
\* told apart here by its file only).
SvgFiles == {"a.svg", "malformed.svg"}
TempSvg == "text.svg"
Malformed(svg_file) == svg_file = "malformed.svg"

\* DrawingManager.process_path_data(svg_file) of a well-formed file: the
\* (svg_size, closed_shapes, path) read from it, each told apart by the file
\* (NoFile: the empty values of __init__).  Of a malformed file it raises
\* ParseError.
process_path_data(svg_file) ==
    [svg_size |-> svg_file, closed_shapes |-> svg_file, path |-> svg_file]

\* Kivg.__init__
KivgInit ==
    /\ _pen_tracker = 0
    /\ _show_hand = FALSE
    /\ _current_pen_pos = NoPos
    /\ all_anim = <<>>
    /\ curr_count = 0
    /\ prev_shapes = <<>>
    /\ curr_shape = <<>>
    /\ curr_id = 0
    /\ curr_clr = 0
    /\ widget_props = [s \in ShapeIds |-> AnimSteps]
    /\ running = {}
    /\ session = 0
    /\ user_done = [s \in 1..MaxCalls |-> 0]
    /\ completed = {}
    /\ live_call = [kind |-> "none", on_complete |-> FALSE, raised |-> NotRaised]
    /\ _previous_svg_file = NoFile
    /\ document = process_path_data(NoFile)
    /\ calls = <<>>

\* The handler named h runs: it is noted in calls.
Ran(w, h) == [w EXCEPT !.calls = Append(@, h)]

_on_hand_slide_complete(w) ==
    [Ran(w, "_on_hand_slide_complete") EXCEPT !._current_pen_pos = NoPos]

\* Invoke a completion callback: the Kivg's bound method, a test mock, or None.
Invoke(w, cb) ==
    IF cb = OnHandSlideComplete THEN _on_hand_slide_complete(w)
    ELSE [w EXCEPT !.mocks = Call(@, cb)]

\* SvgRenderer.collect_shape_points: the points of shape id_ as the widget's
\* animated properties currently place them (AnimSteps: the final points).
collect_shape_points(w, id_) == <<id_, w.widget_props[id_]>>

\* An Animation object of all_anim, identified by the call that created it
\* and its place in the list; user: the caller's on_complete is bound to it.
ShapeAnim(ent) ==
    [ kind |-> "shape", sess |-> ent.anim[1], idx |-> ent.anim[2],
      shape |-> ent.id_, phase |-> "run", progress |-> 0,
      fill |-> FALSE, hand |-> FALSE, user |-> ent.user ]

\* draw's animation: the stroke phase, then the fill phase when fill is set;
\* hand: _on_draw_complete is bound to its on_complete.
DrawAnim(sess, fill, hand) ==
    [ kind |-> "draw", sess |-> sess, idx |-> 0,
      shape |-> 0, phase |-> "draw", progress |-> 0,
      fill |-> fill, hand |-> hand, user |-> FALSE ]

\* Animation.cancel_all(widget): every animation of the widget is detached
\* from the clock, without an on_complete.
cancel_all(w) == [w EXCEPT !.running = {}]

\* track_progress that redraws without recomputing the active shape.
track_progress_NoRecompute(w) == w

track_progress(w) ==
    [Ran(w, "track_progress") EXCEPT
        !.curr_shape = <<w.curr_clr, collect_shape_points(w, w.curr_id)>>]

\* anim_on_comp that keeps only the shape just completed as settled.
anim_on_comp_Overwrite(w) ==
    LET w1 == [Ran(w, "anim_on_comp") EXCEPT !.curr_count  = @ + 1,
                        !.prev_shapes = <<w.curr_shape>>]
    IN IF w1.curr_count < Len(w1.all_anim)
       THEN LET ent == w1.all_anim[w1.curr_count + 1] IN
            [w1 EXCEPT !.curr_id  = ent.id_,
                       !.curr_clr = Color(ent.id_),
                       !.running  = @ \cup {ShapeAnim(ent)}]
       ELSE w1

anim_on_comp(w) ==
    LET w1 == [Ran(w, "anim_on_comp") EXCEPT !.curr_count  = @ + 1,
                        !.prev_shapes = Append(@, w.curr_shape)]
    IN IF w1.curr_count < Len(w1.all_anim)
       THEN LET ent == w1.all_anim[w1.curr_count + 1] IN
            [w1 EXCEPT !.curr_id  = ent.id_,
                       !.curr_clr = Color(ent.id_),
                       !.running  = @ \cup {ShapeAnim(ent)}]
       ELSE w1

\* update_canvas; pen_pos is what SvgRenderer.get_current_pen_position gave.
update_canvas(w, pen_pos) ==
    LET w0 == Ran(w, "update_canvas")
        w1 == IF pen_pos # NoPos THEN [w0 EXCEPT !._current_pen_pos = pen_pos]
              ELSE w0
        p  == w1._pen_tracker
    IN IF p # 0 /\ w1._current_pen_pos # NoPos
       THEN IF is_active(w1.trackers[p])
            THEN [w1 EXCEPT !.trackers[p] =
                      update_position(@, w1._current_pen_pos[1],
                                         w1._current_pen_pos[2])]
            ELSE w1
       ELSE w1

\* fill_up_shapes: clears the canvas and renders the filled shapes.
fill_up_shapes(w) == Ran(w, "fill_up_shapes")

\* _on_draw_complete that slides the marker out without passing
\* _on_hand_slide_complete as on_complete.
_on_draw_complete_NoCallback(w0) ==
    LET w == Ran(w0, "_on_draw_complete")
        p == w._pen_tracker IN
    IF p # 0
    THEN LET r == slide_out(w.trackers[p], NoCb) IN
         Invoke([w EXCEPT !.trackers[p] = r.trk], r.fired)
    ELSE [w EXCEPT !._current_pen_pos = NoPos]

_on_draw_complete(w0) ==
    LET w == Ran(w0, "_on_draw_complete")
        p == w._pen_tracker IN
    IF p # 0
    THEN LET r == slide_out(w.trackers[p], OnHandSlideComplete) IN
         Invoke([w EXCEPT !.trackers[p] = r.trk], r.fired)
    ELSE [w EXCEPT !._current_pen_pos = NoPos]

\* DrawingManager.calculate_paths: the widget's properties of every shape
\* are set to the shape's target geometry.
calculate_paths(w) ==
    [w EXCEPT !.widget_props = [s \in ShapeIds |-> AnimSteps]]

\* The load that caches the file name before the file is processed.
LoadDocument_CacheFirst(w, svg_file) ==
    IF svg_file # w._previous_svg_file
    THEN LET w1 == [w EXCEPT !._previous_svg_file = svg_file] IN
         IF Malformed(svg_file)
         THEN [w1 EXCEPT !.raised = "ParseError"]
         ELSE [w1 EXCEPT !.document = process_path_data(svg_file)]
    ELSE w

\* draw's load of the document: only a file other than the cached one is
\* processed; the exception of a malformed file leaves draw before the
\* tuple assignment and before the file name is cached.
LoadDocument(w, svg_file) ==
    IF svg_file # w._previous_svg_file
    THEN IF Malformed(svg_file)
         THEN [w EXCEPT !.raised = "ParseError"]
         ELSE [w EXCEPT !.document           = process_path_data(svg_file),
                        !._previous_svg_file = svg_file]
    ELSE w

\* draw(svg_file, animate, fill=..., show_hand=..., from_shape_anim=...);
\* tex: the hand image can be loaded; pen_pos: the pen position the static
\* rendering finds; sess: the number of this call.
draw(w, svg_file, animate, fill, show_hand, tex, from_shape_anim, pen_pos, sess) ==
    LET hand == show_hand /\ animate
        w1 == IF hand
              THEN [w EXCEPT !._show_hand   = TRUE,
                             !.trackers     = Append(@, start(PenTracker(tex))),
                             !._pen_tracker = Len(w.trackers) + 1]
              ELSE [w EXCEPT !._show_hand   = FALSE,
                             !.trackers     =
                                 IF w._pen_tracker # 0
                                 THEN [@ EXCEPT ![w._pen_tracker] = stop(@)]
                                 ELSE @,
                             !._pen_tracker = 0]
        wl == LoadDocument(w1, svg_file)
        w2 == calculate_paths(wl)
    IN IF wl.raised # NotRaised THEN wl
       ELSE IF from_shape_anim THEN w2
       ELSE IF animate
            THEN [cancel_all(w2) EXCEPT !.running = {DrawAnim(sess, fill, hand)}]
            ELSE IF ~fill THEN update_canvas(cancel_all(w2), pen_pos)
                 ELSE fill_up_shapes(cancel_all(w2))

\* AnimationHandler.prepare_shape_animations: one (id_, animation) per
\* config entry that yields an animation (entry 0 stands for one that
\* yields none); the shapes to animate are put in their start pose.
prepare_shape_animations(cfg, sess) ==
    LET F[i \in 0..Len(cfg)] ==
            IF i = 0 THEN <<>>
            ELSE IF cfg[i] = 0 THEN F[i - 1]
                 ELSE Append(F[i - 1],
                             [id_ |-> cfg[i], anim |-> <<sess, i>>, user |-> FALSE])
    IN F[Len(cfg)]

StartPose(props, anims) ==
    [s \in DOMAIN props |->
        IF \E i \in DOMAIN anims : anims[i].id_ = s THEN 0 ELSE props[s]]

\* The shape_animate that starts every prepared animation at once.
shape_animate_StartAll(w, svg_file, cfg, has_cb, sess) ==
    LET w1 == draw(w, svg_file, FALSE, TRUE, FALSE, FALSE, TRUE, NoPos, sess)
        prepared == prepare_shape_animations(cfg, sess)
        w2 == [w1 EXCEPT !.all_anim     = prepared,
                         !.curr_count   = 0,
                         !.prev_shapes  = <<>>,
                         !.curr_shape   = <<>>,
                         !.widget_props = StartPose(@, prepared)]
    IN IF w1.raised # NotRaised THEN w1
       ELSE IF w2.all_anim # <<>>
       THEN LET n  == Len(w2.all_anim)
                w3 == [w2 EXCEPT !.curr_id  = w2.all_anim[1].id_,
                                 !.curr_clr = Color(w2.all_anim[1].id_),
                                 !.all_anim[n].user = has_cb]
            IN [cancel_all(w3) EXCEPT !.running =
                   {ShapeAnim(w3.all_anim[k]) : k \in DOMAIN w3.all_anim}]
       ELSE IF cfg # <<>> /\ has_cb
            THEN [w2 EXCEPT !.user_done[sess] = @ + 1]
            ELSE w2

\* shape_animate(svg_file, anim_config_list, on_complete); has_cb: an
\* on_complete function was given.
shape_animate(w, svg_file, cfg, has_cb, sess) ==
    LET w1 == draw(w, svg_file, FALSE, TRUE, FALSE, FALSE, TRUE, NoPos, sess)
        prepared == prepare_shape_animations(cfg, sess)
        w2 == [w1 EXCEPT !.all_anim     = prepared,
                         !.curr_count   = 0,
                         !.prev_shapes  = <<>>,
                         !.curr_shape   = <<>>,
                         !.widget_props = StartPose(@, prepared)]
    IN IF w1.raised # NotRaised THEN w1
       ELSE IF w2.all_anim # <<>>
       THEN LET n  == Len(w2.all_anim)
                w3 == [w2 EXCEPT !.curr_id  = w2.all_anim[1].id_,
                                 !.curr_clr = Color(w2.all_anim[1].id_),
                                 !.all_anim[n].user = has_cb]
            IN [cancel_all(w3) EXCEPT !.running = {ShapeAnim(w3.all_anim[1])}]
       ELSE IF cfg # <<>> /\ has_cb
            THEN [w2 EXCEPT !.user_done[sess] = @ + 1]
            ELSE w2

\* draw_text(text, animate, on_complete): the text is converted to a
\* temporary SVG file and drawn; has_cb: an on_complete callback was given.
draw_text(w, animate, fill, show_hand, tex, has_cb, sess) ==
    LET w1 == draw(w, TempSvg, animate, fill, show_hand, tex, FALSE, NoPos, sess)
    IN IF has_cb /\ ~animate
       THEN [w1 EXCEPT !.user_done[sess] = @ + 1]
       ELSE w1

\* One tick of the host clock on a running animation a: the animation
\* advances, dispatches on_progress and, at the end of its last phase,
\* on_complete (the handlers bound last run first).
Progress(w, a, pen_pos) ==
    IF a.kind = "shape"
    THEN track_progress([w EXCEPT !.widget_props[a.shape] = a.progress + 1])
    ELSE IF a.phase = "draw" THEN update_canvas(w, pen_pos)
         ELSE fill_up_shapes(w)

Complete(w, a) ==
    IF a.kind = "shape"
    THEN LET w1 == anim_on_comp(w) IN
         IF a.user THEN [w1 EXCEPT !.user_done[a.sess] = @ + 1] ELSE w1
    ELSE IF a.hand THEN _on_draw_complete(w) ELSE w

\* The tick ends a phase of a / ends a.
EndsPhase(a) == a.progress + 1 >= AnimSteps

\* The animation whose on_complete is dispatched when its first phase ends.
Completes_AtFirstPhaseEnd(a) == EndsPhase(a)

Completes(a) ==
    EndsPhase(a) /\ ~(a.kind = "draw" /\ a.phase = "draw" /\ a.fill)

Tick(w, a, pen_pos) ==
    LET w1 == Progress(w, a, pen_pos) IN
    IF ~EndsPhase(a)
    THEN [w1 EXCEPT !.running =
              (@ \ {a}) \cup {[a EXCEPT !.progress = a.progress + 1]}]
    ELSE IF ~Completes(a)
         THEN [w1 EXCEPT !.running =
                   (@ \ {a}) \cup {[a EXCEPT !.phase = "fill", !.progress = 0]}]
         ELSE Complete([w1 EXCEPT !.running = @ \ {a}], a)

\* What SvgRenderer.get_current_pen_position can report: the tip of the
\* stroke, or None when the path has no current point.
PenPositions == {NoPos, <<200, 200>>}

(***************************************************************************)
(* SpecPen: one PenTracker and its callers                                 *)
(***************************************************************************)
InitPen ==
    /\ \E tex \in BOOLEAN : trackers = <<PenTracker(tex)>>
    /\ mocks = [c \in CbIds |-> NewMock]
    /\ lastOp = Op("init", 0, NoCb, FALSE)
    /\ KivgInit
    /\ pure = NoCall

PenStart ==
    /\ FreeGroups(trackers[1]) # {}
    /\ trackers' = [trackers EXCEPT ![1] = start(@)]
    /\ lastOp' = Op("start", 0, NoCb, FALSE)
    /\ UNCHANGED <<mocks, _current_pen_pos, kivgVars>>

PenStop ==
    /\ trackers' = [trackers EXCEPT ![1] = stop(@)]
    /\ mocks' = MarkStopped(mocks)
    /\ lastOp' = Op("stop", 0, NoCb, FALSE)
    /\ UNCHANGED <<_current_pen_pos, kivgVars>>

PenUpdatePosition ==
    \E tip \in Tips :
        /\ trackers' = [trackers EXCEPT ![1] = update_position(@, tip[1], tip[2])]
        /\ lastOp' = Op("update_position", tip, NoCb, FALSE)
        /\ UNCHANGED <<mocks, _current_pen_pos, kivgVars>>

PenSlideOut ==
    \E c \in FreshCb : \E given \in BOOLEAN :
        /\ FreeEvents(trackers[1]) # {}
        /\ LET cb == IF given THEN c ELSE NoCb
               r  == slide_out(trackers[1], cb)
           IN
           /\ trackers' = [trackers EXCEPT ![1] = r.trk]
           /\ mocks' = Call(Pass(mocks, c, given,
                                 IF is_active(trackers[1]) /\ trackers[1]._hand_texture
                                 THEN "active" ELSE "inactive"),
                            r.fired)
           /\ lastOp' = Op("slide_out", c, r.fired, FALSE)
        /\ UNCHANGED <<_current_pen_pos, kivgVars>>

\* The host clock runs one scheduled exit tick of tracker p.
ExitTick ==
    \E p \in DOMAIN trackers : \E e \in trackers[p].scheduled : \E dt \in Dts :
    \E r \in {ClockFire(trackers[p], e, dt)} :
    \E w \in {Invoke([World EXCEPT !.trackers[p] = r.trk], r.fired)} :
        /\ Commit(w)
        /\ lastOp' = Op("exit_tick", p, r.fired, ~r.cont)
        /\ UNCHANGED <<session, completed, live_call>>

NextPen ==
    \/ PenStart
    \/ PenStop
    \/ PenUpdatePosition
    \/ PenSlideOut
    \/ ExitTick

SpecPen == InitPen /\ [][NextPen]_vars

(***************************************************************************)
(* Spec: one Kivg, its callers and the host clock                          *)
(***************************************************************************)
\* No object has been constructed and nothing was called.
NoObjects ==
    /\ trackers = <<>>
    /\ mocks = [c \in CbIds |-> NewMock]
    /\ lastOp = Op("init", 0, NoCb, FALSE)
    /\ KivgInit

\* The variables of the objects, which a pure function leaves alone.
objectVars == <<trackers, mocks, lastOp, _pen_tracker, _show_hand,
                _current_pen_pos, all_anim, curr_count, prev_shapes, curr_shape,
                curr_id, curr_clr, widget_props, running, session, user_done,
                completed, live_call, _previous_svg_file, document, calls>>

Init == NoObjects /\ pure = NoCall

\* anim_config_list: entry 0 yields no animation, the others name a shape,
\* each shape at most once.  Entries that yield none change the outcome only
\* when no entry yields one (prepare_shape_animations drops them), so <<0>>
\* stands for every list that holds such entries.
Configs ==
    {cfg \in UNION {[1..n -> {0} \cup ShapeIds] : n \in 0..MaxCfg} :
        /\ (\E i \in DOMAIN cfg : cfg[i] = 0) => cfg = <<0>>
        /\ \A i, j \in DOMAIN cfg : cfg[i] = cfg[j] => i = j}

\* The load of svg_file by a call made now raises.
Fails(svg_file) == svg_file # _previous_svg_file /\ Malformed(svg_file)

\* tex is read only when a tracker is constructed, pen_pos only by the
\* static stroke rendering, and fill not at all by a call whose load
\* raises; elsewhere one value stands for all.
Draw ==
    \E svg_file \in SvgFiles : \E animate, fill, show_hand, tex \in BOOLEAN :
    \E pen_pos \in PenPositions :
        /\ session < MaxCalls
        /\ (~(show_hand /\ animate)) => ~tex
        /\ (animate \/ fill) => pen_pos = NoPos
        /\ Fails(svg_file) => ~fill /\ pen_pos = NoPos
        /\ LET w == draw(World, svg_file, animate, fill, show_hand, tex, FALSE,
                         pen_pos, session + 1)
           IN /\ Commit(w)
              /\ live_call' = [kind |-> "draw", on_complete |-> FALSE,
                               raised |-> w.raised]
        /\ session' = session + 1
        /\ lastOp' = Op("draw", session + 1, NoCb, FALSE)
        /\ completed' = {}

\* draw_text(text, animate, on_complete=..., fill=...), a font being found.
\* The hand options are handed on to draw as they are: Draw covers them.
DrawText ==
    \E animate, fill, has_cb \in BOOLEAN :
        /\ session < MaxCalls
        /\ session' = session + 1
        /\ Commit(draw_text(World, animate, fill, FALSE, FALSE, has_cb,
                            session + 1))
        /\ lastOp' = Op("draw_text", session + 1, NoCb, FALSE)
        /\ completed' = {}
        /\ live_call' = [kind |-> "draw_text", on_complete |-> has_cb,
                         raised |-> NotRaised]

\* A call whose load raises reads neither the config list nor on_complete.
ShapeAnimate ==
    \E svg_file \in SvgFiles : \E cfg \in Configs : \E has_cb \in BOOLEAN :
        /\ session < MaxCalls
        /\ Fails(svg_file) => cfg = <<>> /\ ~has_cb
        /\ LET w == shape_animate(World, svg_file, cfg, has_cb, session + 1)
           IN /\ Commit(w)
              /\ live_call' = [kind |-> "shape_animate", on_complete |-> has_cb,
                               raised |-> w.raised]
        /\ session' = session + 1
        /\ lastOp' = Op("shape_animate", session + 1, NoCb, FALSE)
        /\ completed' = {}

\* The host clock ticks one running animation.
AnimTick ==
    \E a \in running : \E pen_pos \in PenPositions :
        /\ (a.kind # "draw" \/ a.phase # "draw") => pen_pos = NoPos
        /\ Commit(Tick(World, a, pen_pos))
        /\ lastOp' = Op("anim_tick", a.sess, NoCb, Completes(a))
        /\ completed' = IF Completes(a) /\ a.sess = session
                        THEN completed \cup {<<a.sess, a.idx>>} ELSE completed
        /\ UNCHANGED <<session, live_call>>

Next ==
    \/ Draw
    \/ DrawText
    \/ ShapeAnimate
    \/ AnimTick
    \/ ExitTick

Spec == Init /\ [][Next]_vars

\* The Clock runs what is scheduled with it: weak fairness of the exit
\* ticks.  Callers need not call and animations need not run.
SpecClock == Spec /\ WF_vars(ExitTick)

(***************************************************************************)
(* Properties of the PenTracker (checked under SpecPen)                    *)
(***************************************************************************)
\* The tracker the callers of SpecPen drive.
Pen == trackers[1]

\* The three states of the marker: Idle, Active (visible, following the
\* tip), SlidingOut (the exit animation is scheduled).
PenState(t) ==
    IF ~t._is_active THEN "Idle"
    ELSE IF t._slide_out_event # NoEvent THEN "SlidingOut" ELSE "Active"

\* Idle: not active, no marker graphics on the canvas, no exit tick scheduled.
FullyIdle(t) == ~is_active(t) /\ t.attached = {} /\ t.scheduled = {}

\* The opacity the marker shows with; a marker that is off the canvas shows
\* with none.
MarkerOpacity(t) == IF t._hand_group = NoGroup THEN 0 ELSE t._hand_color

\* C3: a callback handed to slide_out while the tracker was active, with no
\* stop() after it, is invoked exactly once, when the slide progress reaches
\* 1: never twice, and once the tracker has left the active state it has
\* been invoked.
C3_CallbackExactlyOnce ==
    \A c \in CbIds :
        (mocks[c].passed = "active" /\ mocks[c].given
                                    /\ mocks[c].stopped_at = NotStopped)
        => /\ mocks[c].calls <= 1
           /\ ~is_active(Pen) => mocks[c].calls = 1

\* C4: stop() leaves the tracker Idle (inactive, marker graphics removed),
\* leaves no exit tick scheduled, and a callback registered before the stop
\* is not invoked after it.
C4_StopLeavesIdle ==
    /\ lastOp.op = "stop" => FullyIdle(Pen)
    /\ \A c \in CbIds :
           mocks[c].stopped_at # NotStopped => mocks[c].calls = mocks[c].stopped_at

\* C7: slide_out(on_complete=cb) on a tracker that is not active invokes cb
\* synchronously, exactly once (and it is never invoked again), schedules no
\* exit tick and leaves position, is_active and the canvas as they were.
C7_InactiveSlideOutCallsBack ==
    /\ [](\A c \in CbIds :
             mocks[c].passed = "inactive"
             => mocks[c].calls = IF mocks[c].given THEN 1 ELSE 0)
    /\ [][(lastOp'.op = "slide_out" /\ ~(is_active(Pen) /\ Pen._hand_texture))
          => /\ trackers' = trackers
             /\ lastOp'.fired = IF mocks'[lastOp'.arg].given
                                THEN lastOp'.arg ELSE NoCb]_vars

\* C7's case: a tracker whose marker image was loaded, not active, was
\* handed a callback by slide_out and has called it.
C7_Witness ==
    /\ lastOp.op = "slide_out"
    /\ Pen._hand_texture /\ ~is_active(Pen)
    /\ \E c \in CbIds : /\ mocks[c].passed = "inactive" /\ mocks[c].given
                        /\ mocks[c].calls = 1 /\ lastOp.fired = c

\* C8: a tracker whose marker image could not be loaded is never active, has
\* no marker graphics on the canvas and no exit tick scheduled, and stays at
\* its initial position, whatever is called on it.
C8_NoTextureNeverActive ==
    ~Pen._hand_texture
    => /\ ~is_active(Pen)
       /\ Pen._hand_group = NoGroup /\ Pen.attached = {}
       /\ Pen.scheduled = {} /\ Pen._slide_out_event = NoEvent
       /\ current_position(Pen) = <<0, 0>>

\* C8's case: without a marker image, start() was called after slide_out
\* and update_position had been tried.
C8_Witness ==
    /\ ~Pen._hand_texture
    /\ lastOp.op = "start"
    /\ \E c \in CbIds : mocks[c].passed = "inactive" /\ mocks[c].calls = 1

\* C9: the tracker moves only Idle -> Active (start) -> SlidingOut
\* (slide_out) -> Idle (and to Idle by stop); when the exit animation ends
\* by itself the tracker is Idle: inactive, marker graphics removed, no exit
\* tick scheduled.
C9_ThreeStateMachine ==
    /\ []((lastOp.op = "exit_tick" /\ lastOp.fin) => FullyIdle(Pen))
    /\ [][LET a == PenState(Pen)
              b == PenState(Pen')
              op == lastOp'.op
          IN a # b =>
                \/ a = "Idle" /\ b = "Active" /\ op = "start"
                \/ a = "Active" /\ b = "SlidingOut" /\ op = "slide_out"
                \/ a = "SlidingOut" /\ b = "Idle" /\ op \in {"exit_tick", "stop"}
                \/ a = "Active" /\ b = "Idle" /\ op = "stop"]_vars

\* C10: when the exit animation reaches progress 1, the position's y is the
\* slide target's y and the marker's opacity is 0.
C10_SlideEndsAtTarget ==
    (lastOp.op = "exit_tick" /\ lastOp.fin /\ Pen._slide_progress = SlideUnits)
    => /\ current_position(Pen)[2] = Pen._slide_target_pos[2]
       /\ MarkerOpacity(Pen) = 0

\* The distance of y from the slide target's y.
DistToTarget(t, y) ==
    IF y >= t._slide_target_pos[2] THEN y - t._slide_target_pos[2]
    ELSE t._slide_target_pos[2] - y

\* C11: slide_out takes the start from the position at the time of the call
\* and the target (start_x, widget.pos[1] - hand_size[1]); after every exit
\* tick with progress t < 1 the marker's x is start_x and its y is
\* start_y + (target_y - start_y) * (-t*(t-2)) (to the model's unit, rounded
\* down), which is no farther from target_y than start_y is.
C11_SlideEasesStraightDown ==
    /\ []((lastOp.op = "exit_tick" /\ ~lastOp.fin)
          => LET p  == Pen._slide_progress
                 sy == Pen._slide_start_pos[2]
                 ty == Pen._slide_target_pos[2]
                 y  == current_position(Pen)[2]
                 e  == (ty - sy) * (2 * p * SlideUnits - p * p)
             IN /\ current_position(Pen)[1] = Pen._slide_start_pos[1]
                /\ (y - sy) * PosScale <= e
                /\ e < (y - sy + 1) * PosScale
                /\ DistToTarget(Pen, y) <= DistToTarget(Pen, sy))
    /\ [][(lastOp'.op = "slide_out" /\ is_active(Pen) /\ Pen._hand_texture)
          => /\ Pen'._slide_start_pos = current_position(Pen)
             /\ Pen'._slide_target_pos =
                    <<current_position(Pen)[1], (WidgetPosY - HandH) * PosScale>>]_vars

\* C11's case: the second exit tick of a slide that started above the
\* target, the marker strictly between start and target.
C11_Witness ==
    /\ lastOp.op = "exit_tick" /\ ~lastOp.fin
    /\ Pen._slide_progress = 2
    /\ Pen._slide_start_pos[2] = (200 - PenOffsetY) * PosScale
    /\ current_position(Pen)[2] < Pen._slide_start_pos[2]
    /\ current_position(Pen)[2] > Pen._slide_target_pos[2]


C25_OpacityFadesLinearly ==
    (PenState(Pen) = "SlidingOut" /\ Pen._hand_color # NoColor)
    => Pen._hand_color * SlideUnits = PosScale * (SlideUnits - Pen._slide_progress)

\* C30: a tracker has at most one exit tick scheduled, the one held in
\* _slide_out_event (which stop and _finish_slide_out cancel), and a
\* callback handed to slide_out by an active tracker that was neither
\* called nor stopped is the one the tracker holds: a slide_out during the
\* exit animation leaves no untracked exit tick and drops no callback.
C30_OneTrackedExitTick ==
    /\ Pen.scheduled \subseteq {Pen._slide_out_event}
    /\ \A c \in CbIds :
           (mocks[c].passed = "active" /\ mocks[c].given
               /\ mocks[c].calls = 0 /\ mocks[c].stopped_at = NotStopped)
           => Pen._slide_out_callback = c

\* C31: a tracker has at most one marker graphics group on the canvas, the
\* one held in _hand_group (which stop and clear_hand remove), and none when
\* it is Idle: a start on a started tracker leaves no earlier group behind.
C31_OneMarkerGroup ==
    /\ Pen.attached \subseteq {Pen._hand_group}
    /\ PenState(Pen) = "Idle" => Pen.attached = {}

(***************************************************************************)
(* Properties of the Kivg (checked under Spec)                             *)
(***************************************************************************)
IsPrefix(a, b) == Len(a) <= Len(b) /\ SubSeq(b, 1, Len(a)) = a

\* The positions of all markers.
MarkerPositions == [p \in DOMAIN trackers |-> current_position(trackers[p])]

\* C1: a progress or complete event of an animation that belongs to a
\* superseded call changes none of prev_shapes, curr_shape, curr_count and
\* the pen / marker position.
C1_StaleEventInert ==
    [][(lastOp'.op = "anim_tick" /\ lastOp'.arg # session)
       => /\ UNCHANGED <<prev_shapes, curr_shape, curr_count, _current_pen_pos>>
          /\ MarkerPositions' = MarkerPositions]_vars

\* C2: only the tracker held in _pen_tracker has its marker on the canvas or
\* an exit tick scheduled (so at most one has, and no earlier tracker's
\* callback can still fire).
C2_OneLiveTracker ==
    \A p \in DOMAIN trackers :
        (trackers[p].attached # {} \/ trackers[p].scheduled # {})
        => p = _pen_tracker

\* The live shape_animate session has queued animations and all of them
\* have completed.
AllCompleted ==
    /\ all_anim # <<>>
    /\ \A k \in DOMAIN all_anim : all_anim[k].anim \in completed

\* The settled entry of a queued shape: its colour and its final points.
SettledEntry(ent) == <<Color(ent.id_), <<ent.id_, AnimSteps>>>>

\* C5: once the N queued animations of a shape_animate session have all
\* completed, prev_shapes has N entries, the k-th being the colour and the
\* final point list of the k-th queued shape.
C5_SettledInInputOrder ==
    AllCompleted
    => /\ Len(prev_shapes) = Len(all_anim)
       /\ \A k \in DOMAIN all_anim : prev_shapes[k] = SettledEntry(all_anim[k])

\* C5's case: a session of two queued shapes, both completed.
C5_Witness ==
    /\ AllCompleted
    /\ Len(all_anim) = 2 /\ all_anim[1].id_ # all_anim[2].id_
    /\ lastOp.op = "anim_tick" /\ lastOp.fin

\* C6: within one session prev_shapes only grows by append: every step of
\* the session leaves the earlier list a prefix of the later one.
C6_SettledAppendOnly ==
    [][session' = session => IsPrefix(prev_shapes, prev_shapes')]_vars

\* C6's case: a progress tick of the second shape, with the first settled.
C6_Witness ==
    /\ lastOp.op = "anim_tick" /\ ~lastOp.fin /\ lastOp.arg = session
    /\ Len(prev_shapes) = 1
    /\ curr_shape # <<>> /\ curr_shape # prev_shapes[1]

\* The live session has no animation left to run.
SessionOver == \A a \in running : a.sess # session

\* C13: the on_complete handed to a shape_animate call is invoked exactly
\* once, whatever anim_config_list is: never twice, not before every queued
\* shape animation has completed, and it has been invoked once the session
\* has nothing left to run.
C13_ShapeOnCompleteOnce ==
    (live_call.kind = "shape_animate" /\ live_call.on_complete)
    => /\ user_done[session] <= 1
       /\ user_done[session] = 1
              => \A k \in DOMAIN all_anim : all_anim[k].anim \in completed
       /\ SessionOver => user_done[session] = 1

\* C14: the on_complete handed to a draw_text call is invoked exactly once
\* when the drawing finishes: never twice, not while the drawing animation
\* of the call is running, and it has been invoked once the call has nothing
\* left to run (at once for a static render).
C14_TextOnCompleteOnce ==
    (live_call.kind = "draw_text" /\ live_call.on_complete)
    => /\ user_done[session] <= 1
       /\ user_done[session] = 1 => SessionOver
       /\ SessionOver => user_done[session] = 1

\* C19: a draw (or a shape_animate, which draws first) whose load of the SVG
\* file raises leaves the loaded document (svg_size, closed_shapes, path) and
\* the cached file name _previous_svg_file as they were, and starts no
\* animation: no animation of the call runs, and none runs that did not
\* run before it.
C19_FailedLoadKeepsDocument ==
    [][(session' # session /\ live_call'.raised # NotRaised)
       => /\ document' = document
          /\ _previous_svg_file' = _previous_svg_file
          /\ running' \subseteq running
          /\ \A a \in running' : a.sess # session']_vars

\* C19's case: a file was loaded and its animation runs, and the call made
\* last named the malformed file and raised.
C19_Witness ==
    /\ live_call.raised = "ParseError" /\ lastOp.arg = session
    /\ lastOp.op \in {"draw", "shape_animate"}
    /\ _previous_svg_file = "a.svg" /\ document = process_path_data("a.svg")
    /\ running # {}

\* C33: a draw call whose load of the SVG file raises leaves the Kivg as it
\* was before the call: _show_hand is unchanged, and no PenTracker is
\* created, started or stopped by the call (the tracker held and every
\* tracker's marker are as before).
C33_FailedDrawChangesNothing ==
    [][(lastOp'.op = "draw" /\ live_call'.raised # NotRaised)
       => /\ _show_hand' = _show_hand
          /\ _pen_tracker' = _pen_tracker
          /\ trackers' = trackers]_vars

\* The animation of the live draw call, made with show_hand, has just
\* completed; a call of draw, draw_text or shape_animate has just been made;
\* the tracker held is Idle with its marker off the canvas and
\* _current_pen_pos is None.
HandDrawCompleted ==
    /\ lastOp.op = "anim_tick" /\ lastOp.fin /\ lastOp.arg = session
    /\ live_call.kind = "draw" /\ _show_hand
CallMade == lastOp.op \in {"draw", "draw_text", "shape_animate"}
HandSettled ==
    /\ _current_pen_pos = NoPos
    /\ _pen_tracker # 0
    /\ PenState(trackers[_pen_tracker]) = "Idle"
    /\ trackers[_pen_tracker].attached = {}

\* C34: after an animated draw with show_hand has completed, unless a
\* further call is made, the tracker is eventually Idle with its marker
\* removed and _current_pen_pos is eventually None, and they stay so: after
\* the exit animation when the marker was active, at once when the marker
\* image could not be loaded.
C34_HandEventuallySettles ==
    [](HandDrawCompleted => (<>CallMade \/ <>[]HandSettled))

\* C34's case: the exit animation of the marker of a completed draw has
\* ended by itself, the pen position having been set during the draw, and
\* the tracker is Idle and the pen position None.
C34_Witness ==
    /\ lastOp.op = "exit_tick" /\ lastOp.fin /\ lastOp.fired = OnHandSlideComplete
    /\ live_call.kind = "draw" /\ _show_hand /\ running = {}
    /\ _pen_tracker # 0 /\ lastOp.arg = _pen_tracker
    /\ trackers[_pen_tracker]._current_pos # <<0, 0>>
    /\ HandSettled

\* The shape animations running on the widget, the one of them that is
\* queued entry k of the live session, and the shape of a settled or active
\* entry (0: the entry is empty).
ShapeAnims(run) == {a \in run : a.kind = "shape"}
IsQueued(a, k) ==
    /\ a.kind = "shape" /\ k \in DOMAIN all_anim
    /\ all_anim[k].anim = <<a.sess, a.idx>>
ShapeOf(entry) == IF entry = <<>> THEN 0 ELSE entry[2][1]

\* C23: shape animations run one at a time, in queue order.  At most one
\* runs in any state; while queued entry k of the live session runs, k - 1
\* shapes have completed and every shape queued after k is in its start
\* pose, is not the active shape and is not settled; and a shape animation
\* starts only in the shape_animate call, as entry 1, or in the tick that
\* completes the entry queued before it.
C23_OneShapeAtATime ==
    /\ [](/\ Cardinality(ShapeAnims(running)) <= 1
          /\ \A a \in ShapeAnims(running) :
                 a.sess = session
                 => \E k \in DOMAIN all_anim :
                        /\ IsQueued(a, k)
                        /\ curr_count = k - 1 /\ Len(prev_shapes) = k - 1
                        /\ \A j \in DOMAIN all_anim :
                               j > k
                               => /\ widget_props[all_anim[j].id_] = 0
                                  /\ ShapeOf(curr_shape) # all_anim[j].id_
                                  /\ \A i \in DOMAIN prev_shapes :
                                         ShapeOf(prev_shapes[i]) # all_anim[j].id_)
    /\ [][\A a \in ShapeAnims(running') :
              (\A b \in ShapeAnims(running) : <<b.sess, b.idx>> # <<a.sess, a.idx>>)
              => \/ /\ lastOp'.op = "shape_animate" /\ a.sess = session'
                    /\ all_anim'[1].anim = <<a.sess, a.idx>>
                 \/ /\ lastOp'.op = "anim_tick" /\ lastOp'.fin
                    /\ \E b \in ShapeAnims(running) \ running' :
                           \E k \in DOMAIN all_anim :
                               /\ Completes(b) /\ IsQueued(b, k)
                               /\ k + 1 \in DOMAIN all_anim
                               /\ all_anim[k + 1].anim = <<a.sess, a.idx>>]_vars

\* C23's case: the tick that completed the first of two queued shapes has
\* started the second, which is the only animation running.
C23_Witness ==
    /\ lastOp.op = "anim_tick" /\ lastOp.fin /\ lastOp.arg = session
    /\ Len(all_anim) = 2 /\ Len(prev_shapes) = 1
    /\ \E a \in running : running = {a} /\ IsQueued(a, 2) /\ a.progress = 0

\* The last step ran handler h.
Called(history, h) == \E i \in DOMAIN history : history[i] = h

\* C24: in an animated draw with fill, the fill phase starts only in the
\* tick that ends the stroke phase, whose progress call (update_canvas) is
\* the last one of the stroke; every fill_up_shapes progress call is made in
\* the fill phase and no update_canvas call is; and _on_draw_complete runs
\* only in the tick that ends the fill phase, after its progress call.
C24_FillAfterStroke ==
    [][/\ Called(calls', "_on_draw_complete") => lastOp'.op = "anim_tick"
       /\ \A a \in running \ running' :
              (lastOp'.op = "anim_tick" /\ a.kind = "draw" /\ a.fill)
              => /\ a.phase = "draw"
                    => /\ calls' = <<"update_canvas">>
                       /\ \A b \in running' : b.phase = "fill" <=> EndsPhase(a)
                 /\ a.phase = "fill"
                    => /\ calls'[1] = "fill_up_shapes"
                       /\ ~Called(calls', "update_canvas")
                       /\ \A b \in running' : b.phase = "fill"
                 /\ Called(calls', "_on_draw_complete")
                    => /\ a.phase = "fill" /\ EndsPhase(a)
                       /\ calls'[2] = "_on_draw_complete"]_vars

\* C24's case: the last tick of the fill phase of a draw with the hand has
\* run _on_draw_complete after its fill_up_shapes call, and the marker
\* slides out.
C24_Witness ==
    /\ lastOp.op = "anim_tick" /\ lastOp.fin /\ lastOp.arg = session
    /\ calls = <<"fill_up_shapes", "_on_draw_complete">>
    /\ _pen_tracker # 0 /\ PenState(trackers[_pen_tracker]) = "SlidingOut"

(***************************************************************************)
(* Real arithmetic of the pure functions (easing.py, path_utils.py).       *)
(* A float is modelled by the real number it stands for: a rational        *)
(* <<n, d>> in lowest terms, d > 0.  sin, sqrt and pow are exact where the *)
(* real value is rational and known (multiples of 30 and 90 degrees,       *)
(* squares, whole exponents) and rounded down to 1/FixOne elsewhere.       *)
(***************************************************************************)
FixOne == 16384

Abs(x) == IF x < 0 THEN -x ELSE x

RECURSIVE Gcd(_, _)
Gcd(a, b) == IF b = 0 THEN a ELSE Gcd(b, a % b)

R(n, d) ==
    LET g == Gcd(Abs(n), Abs(d))
        sg == IF d < 0 THEN -1 ELSE 1
    IN <<(sg * n) \div g, (sg * d) \div g>>

Zero == <<0, 1>>
One  == <<1, 1>>
RInt(k) == <<k, 1>>

\* a in units of 1/FixOne, rounded down.
ToFix(a) ==
    LET g == Gcd(a[2], FixOne) IN (a[1] * (FixOne \div g)) \div (a[2] \div g)
FixMul(x, y) == (x * y) \div FixOne

\* x * y fits the model's integers.
Fits(x, y) == y = 0 \/ Abs(x) <= (FixOne * FixOne * 4) \div Abs(y)

\* Sums and products are exact (common factors are divided out before the
\* products are formed) unless a term does not fit the model's integers:
\* then they are formed in units of 1/FixOne, rounded down.
RAdd(a, b) ==
    LET g == Gcd(a[2], b[2])
        x == b[2] \div g
        y == a[2] \div g
    IN IF Fits(a[1], x) /\ Fits(b[1], y) /\ Fits(y, b[2])
       THEN R(a[1] * x + b[1] * y, y * b[2])
       ELSE R(ToFix(a) + ToFix(b), FixOne)
RNeg(a)    == <<-a[1], a[2]>>
RSub(a, b) == RAdd(a, RNeg(b))
RMul(a, b) ==
    LET x == R(a[1], b[2])
        y == R(b[1], a[2])
    IN IF Fits(x[1], y[1]) /\ Fits(x[2], y[2])
       THEN R(x[1] * y[1], x[2] * y[2])
       ELSE R(FixMul(ToFix(a), ToFix(b)), FixOne)
RDiv(a, b) == RMul(a, R(b[2], b[1]))
RLt(a, b)  ==
    LET g == Gcd(a[2], b[2])
        x == b[2] \div g
        y == a[2] \div g
    IN IF Fits(a[1], x) /\ Fits(b[1], y) THEN a[1] * x < b[1] * y
       ELSE ToFix(a) < ToFix(b)
RHalf(a)   == RMul(R(1, 2), a)

\* The largest whole number <= a.
RFloor(a) == a[1] \div a[2]

FromFix(x) == R(x, FixOne)

\* sin(x * pi/2) for x in [0, 1] (x in quarter turns).
SinFirstQuadrant(x) ==
    IF x = Zero THEN Zero
    ELSE IF x = One THEN One
    ELSE IF x = R(1, 3) THEN R(1, 2)
    ELSE LET f  == ToFix(x)
             f2 == FixMul(f, f)
             \* x*(pi/2) - (x*pi/2)^3/6 + (x*pi/2)^5/120 - (x*pi/2)^7/5040
             c1 == 25736
             c3 == 10584
             c5 == 1306
             c7 == 77
             poly == c1 - FixMul(f2, c3 - FixMul(f2, c5 - FixMul(f2, c7)))
         IN FromFix(FixMul(f, poly))

\* sin(x * pi/2) for any x.
SinQuarter(x) ==
    LET y == RSub(x, RInt(4 * RFloor(RDiv(x, RInt(4)))))   \* in [0, 4)
    IN IF ~RLt(One, y) THEN SinFirstQuadrant(y)
       ELSE IF ~RLt(RInt(2), y) THEN SinFirstQuadrant(RSub(RInt(2), y))
       ELSE IF ~RLt(RInt(3), y) THEN RNeg(SinFirstQuadrant(RSub(y, RInt(2))))
       ELSE RNeg(SinFirstQuadrant(RSub(RInt(4), y)))

\* cos(x * pi/2).
CosQuarter(x) == SinQuarter(RAdd(x, One))

RECURSIVE TwoTo(_)
TwoTo(n) == IF n = 0 THEN 1 ELSE 2 * TwoTo(n - 1)

\* pow(2, x).
Pow2(x) ==
    LET n == RFloor(x)
        whole == IF n >= 0 THEN RInt(TwoTo(n)) ELSE R(1, TwoTo(-n))
    IN IF x[2] = 1 THEN whole
       ELSE LET f == ToFix(RSub(x, RInt(n)))    \* in (0, 1)
                \* 2^f ~ 1 + f * (0.6565 + 0.3435 * f)
                m == FixOne + FixMul(f, 10756 + FixMul(5628, f))
            IN RMul(whole, FromFix(m))

\* The whole part of the square root of n, for n < (FixOne + 1)^2.
Root(n) == CHOOSE r \in 0..FixOne : r * r <= n /\ (r + 1) * (r + 1) > n
IsSquare(n) == n <= FixOne * FixOne /\ Root(n) * Root(n) = n

\* sqrt(x) for x in [0, 1].
Sqrt(x) ==
    IF IsSquare(x[1]) /\ IsSquare(x[2]) THEN R(Root(x[1]), Root(x[2]))
    ELSE FromFix(Root(ToFix(x) * FixOne))

(***************************************************************************)
(* AnimationTransition (easing.py): progress and results are reals.        *)
(***************************************************************************)
Two == RInt(2)
Cube(p)  == RMul(RMul(p, p), p)
Fourth(p) == RMul(RMul(p, p), RMul(p, p))
Fifth(p) == RMul(Fourth(p), p)

linear(p) == p

in_quad(p) == RMul(p, p)
out_quad(p) == RMul(RNeg(p), RSub(p, Two))
in_out_quad(p) ==
    LET q == RMul(p, Two) IN
    IF RLt(q, One) THEN RHalf(RMul(q, q))
    ELSE LET q1 == RSub(q, One)
         IN RNeg(RHalf(RSub(RMul(q1, RSub(q1, Two)), One)))

in_cubic(p) == Cube(p)
out_cubic(p) == RAdd(Cube(RSub(p, One)), One)
in_out_cubic(p) ==
    LET q == RMul(p, Two) IN
    IF RLt(q, One) THEN RHalf(Cube(q))
    ELSE RHalf(RAdd(Cube(RSub(q, Two)), Two))

in_quart(p) == Fourth(p)
out_quart(p) == RNeg(RSub(Fourth(RSub(p, One)), One))
in_out_quart(p) ==
    LET q == RMul(p, Two) IN
    IF RLt(q, One) THEN RHalf(Fourth(q))
    ELSE RNeg(RHalf(RSub(Fourth(RSub(q, Two)), Two)))

in_quint(p) == Fifth(p)
out_quint(p) == RAdd(Fifth(RSub(p, One)), One)
in_out_quint(p) ==
    LET q == RMul(p, Two) IN
    IF RLt(q, One) THEN RHalf(Fifth(q))
    ELSE RHalf(RAdd(Fifth(RSub(q, Two)), Two))

in_sine(p) == RAdd(RNeg(CosQuarter(p)), One)
out_sine(p) == SinQuarter(p)
in_out_sine(p) == RNeg(RHalf(RSub(CosQuarter(RMul(Two, p)), One)))

in_expo(p) ==
    IF p = Zero THEN Zero
    ELSE Pow2(RMul(RInt(10), RSub(p, One)))
out_expo(p) ==
    IF p = One THEN One
    ELSE RAdd(RNeg(Pow2(RMul(RInt(-10), p))), One)
in_out_expo(p) ==
    IF p = Zero THEN Zero
    ELSE IF p = One THEN One
    ELSE LET q == RMul(p, Two) IN
         IF RLt(q, One) THEN RHalf(Pow2(RMul(RInt(10), RSub(q, One))))
         ELSE RHalf(RAdd(RNeg(Pow2(RMul(RInt(-10), RSub(q, One)))), Two))

in_circ(p) == RNeg(RSub(Sqrt(RSub(One, RMul(p, p))), One))
out_circ(p) == LET q == RSub(p, One) IN Sqrt(RSub(One, RMul(q, q)))
in_out_circ(p) ==
    LET q == RMul(p, Two) IN
    IF RLt(q, One) THEN RNeg(RHalf(RSub(Sqrt(RSub(One, RMul(q, q))), One)))
    ELSE LET q2 == RSub(q, Two)
         IN RHalf(RAdd(Sqrt(RSub(One, RMul(q2, q2))), One))

\* sin((q - s) * (2 * pi) / period), the angle taken in quarter turns.
ElasticSin(q, s, period) ==
    SinQuarter(RDiv(RMul(RInt(4), RSub(q, s)), period))

in_elastic(p) ==
    LET period == R(3, 10)
        s == RDiv(period, RInt(4))
    IN IF p = One THEN One
       ELSE LET q == RSub(p, One)
            IN RNeg(RMul(Pow2(RMul(RInt(10), q)), ElasticSin(q, s, period)))
out_elastic(p) ==
    LET period == R(3, 10)
        s == RDiv(period, RInt(4))
    IN IF p = One THEN One
       ELSE RAdd(RMul(Pow2(RMul(RInt(-10), p)), ElasticSin(p, s, period)), One)
in_out_elastic(p) ==
    LET period == RMul(R(3, 10), R(3, 2))
        s == RDiv(period, RInt(4))
        q == RMul(p, Two)
    IN IF q = Two THEN One
       ELSE LET q1 == RSub(q, One) IN
            IF RLt(q, One)
            THEN RNeg(RHalf(RMul(Pow2(RMul(RInt(10), q1)),
                                 ElasticSin(q1, s, period))))
            ELSE RAdd(RHalf(RMul(Pow2(RMul(RInt(-10), q1)),
                                 ElasticSin(q1, s, period))), One)

\* 1.70158
BackOvershoot == R(170158, 100000)

in_back(p) ==
    RMul(RMul(p, p),
         RSub(RMul(RAdd(BackOvershoot, One), p), BackOvershoot))
out_back(p) ==
    LET q == RSub(p, One) IN
    RAdd(RMul(RMul(q, q),
              RAdd(RMul(RAdd(BackOvershoot, One), q), BackOvershoot)), One)
in_out_back(p) ==
    LET q == RMul(p, Two)
        s == RMul(BackOvershoot, R(1525, 1000))
    IN IF RLt(q, One)
       THEN RHalf(RMul(RMul(q, q), RSub(RMul(RAdd(s, One), q), s)))
       ELSE LET q2 == RSub(q, Two)
            IN RHalf(RAdd(RMul(RMul(q2, q2),
                               RAdd(RMul(RAdd(s, One), q2), s)), Two))

\* 7.5625 * p * p + c
BounceArc(p, c) == RAdd(RMul(R(75625, 10000), RMul(p, p)), c)

_out_bounce_internal(t, d) ==
    LET p == RDiv(t, d) IN
    IF RLt(p, R(100, 275)) THEN BounceArc(p, Zero)
    ELSE IF RLt(p, R(200, 275))
         THEN BounceArc(RSub(p, R(150, 275)), R(75, 100))
    ELSE IF RLt(p, R(250, 275))
         THEN BounceArc(RSub(p, R(225, 275)), R(9375, 10000))
    ELSE BounceArc(RSub(p, R(2625, 2750)), R(984375, 1000000))

_in_bounce_internal(t, d) == RSub(One, _out_bounce_internal(RSub(d, t), d))

in_bounce(p) == _in_bounce_internal(p, One)
out_bounce(p) == _out_bounce_internal(p, One)
in_out_bounce(p) ==
    LET q == RMul(p, Two) IN
    IF RLt(q, One) THEN RHalf(_in_bounce_internal(q, One))
    ELSE RAdd(RHalf(_out_bounce_internal(RSub(q, One), One)), R(1, 2))

\* The 31 easing functions of the class, by name.
EasingNames ==
    {"linear", "in_quad", "out_quad", "in_out_quad",
     "in_cubic", "out_cubic", "in_out_cubic", "in_quart",
     "out_quart", "in_out_quart", "in_quint", "out_quint",
     "in_out_quint", "in_sine", "out_sine", "in_out_sine",
     "in_expo", "out_expo", "in_out_expo", "in_circ",
     "out_circ", "in_out_circ", "in_elastic", "out_elastic",
     "in_out_elastic", "in_back", "out_back", "in_out_back",
     "in_bounce", "out_bounce", "in_out_bounce"}

\* The easing function called name, applied to p.
Transition(name, p) ==
    CASE
         name = "linear" -> linear(p)
      [] name = "in_quad" -> in_quad(p)
      [] name = "out_quad" -> out_quad(p)
      [] name = "in_out_quad" -> in_out_quad(p)
      [] name = "in_cubic" -> in_cubic(p)
      [] name = "out_cubic" -> out_cubic(p)
      [] name = "in_out_cubic" -> in_out_cubic(p)
      [] name = "in_quart" -> in_quart(p)
      [] name = "out_quart" -> out_quart(p)
      [] name = "in_out_quart" -> in_out_quart(p)
      [] name = "in_quint" -> in_quint(p)
      [] name = "out_quint" -> out_quint(p)
      [] name = "in_out_quint" -> in_out_quint(p)
      [] name = "in_sine" -> in_sine(p)
      [] name = "out_sine" -> out_sine(p)
      [] name = "in_out_sine" -> in_out_sine(p)
      [] name = "in_expo" -> in_expo(p)
      [] name = "out_expo" -> out_expo(p)
      [] name = "in_out_expo" -> in_out_expo(p)
      [] name = "in_circ" -> in_circ(p)
      [] name = "out_circ" -> out_circ(p)
      [] name = "in_out_circ" -> in_out_circ(p)
      [] name = "in_elastic" -> in_elastic(p)
      [] name = "out_elastic" -> out_elastic(p)
      [] name = "in_out_elastic" -> in_out_elastic(p)
      [] name = "in_back" -> in_back(p)
      [] name = "out_back" -> out_back(p)
      [] name = "in_out_back" -> in_out_back(p)
      [] name = "in_bounce" -> in_bounce(p)
      [] name = "out_bounce" -> out_bounce(p)
      [] name = "in_out_bounce" -> in_out_bounce(p)

\* Attributes of the class that are not easing functions: its other methods
\* and what every class has.
OtherAttributes ==
    {"get_transition", "_out_bounce_internal", "_in_bounce_internal",
     "__doc__", "__name__"}

\* Names the class has no attribute for.
UnknownNames == {"non_existent", "", "OUT_QUAD"}

\* get_transition(name) == getattr(cls, name, cls.linear): the attribute
\* called name when the class has one, linear otherwise.
get_transition(name) ==
    IF name \in EasingNames \cup OtherAttributes THEN name ELSE "linear"

(***************************************************************************)
(* SpecEase: one lookup of an easing function by name, then one call of    *)
(* what the lookup returned, at progress k / EaseGrid.                     *)
(***************************************************************************)
EaseGrid == 2

NotLooked == "(not looked up)"
NoValue == <<>>

InitEase ==
    /\ NoObjects
    /\ pure \in [fn : {"ease"},
                 name : EasingNames \cup OtherAttributes \cup UnknownNames,
                 k : 0..EaseGrid, got : {NotLooked}, out : {NoValue}]

GetTransition ==
    /\ pure.fn = "ease" /\ pure.got = NotLooked
    /\ pure' = [pure EXCEPT !.got = get_transition(pure.name)]
    /\ UNCHANGED objectVars

ApplyEasing ==
    /\ pure.fn = "ease" /\ pure.got \in EasingNames /\ pure.out = NoValue
    /\ pure' = [pure EXCEPT !.out = Transition(pure.got, R(pure.k, EaseGrid))]
    /\ UNCHANGED objectVars

NextEase ==
    \/ GetTransition
    \/ ApplyEasing

SpecEase == InitEase /\ [][NextEase]_vars

\* C15: every easing function returns exactly 0 at progress 0 and exactly 1
\* at progress 1.
C15_EasingEndpoints ==
    (pure.fn = "ease" /\ pure.out # NoValue)
    => /\ pure.k = 0 => pure.out = Zero
       /\ pure.k = EaseGrid => pure.out = One

\* C16: for every name that is not the name of an easing function,
\* get_transition returns linear.
C16_UnknownNameGivesLinear ==
    (pure.fn = "ease" /\ pure.got # NotLooked /\ pure.name \notin EasingNames)
    => pure.got = "linear"

(***************************************************************************)
(* Floats whose rounding matters (path_utils.get_all_points): a binary     *)
(* float with FloatBits bits of mantissa, rounded to nearest, ties to      *)
(* even.  The values are below 2^FloatBits.                                *)
(***************************************************************************)
FloatBits == 8

\* The least e with x * 2^e >= 2^(FloatBits - 1), from e on, for x > 0.
RECURSIVE FloatExp(_, _)
FloatExp(x, e) ==
    IF ~RLt(RMul(x, RInt(TwoTo(e))), RInt(TwoTo(FloatBits - 1))) THEN e
    ELSE FloatExp(x, e + 1)

\* q >= 0 rounded to the nearest whole number, a tie to the even one.
RoundHalfEven(q) ==
    LET f   == RFloor(q)
        rem == RSub(q, RInt(f))
    IN IF RLt(rem, R(1, 2)) THEN f
       ELSE IF RLt(R(1, 2), rem) THEN f + 1
       ELSE IF f % 2 = 0 THEN f ELSE f + 1

\* The float nearest to the real x >= 0.
FloatMagnitude(x) ==
    IF x = Zero THEN Zero
    ELSE LET e == FloatExp(x, 0)
         IN R(RoundHalfEven(RMul(x, RInt(TwoTo(e)))), TwoTo(e))

\* The float nearest to the real x: rounding is symmetric about zero.
FloatRound(x) ==
    IF RLt(x, Zero) THEN RNeg(FloatMagnitude(RNeg(x))) ELSE FloatMagnitude(x)

FloatAdd(a, b) == FloatRound(RAdd(a, b))
FloatDiv(a, b) == FloatRound(RDiv(a, b))

(***************************************************************************)
(* path_utils.get_all_points                                               *)
(***************************************************************************)
\* Bernstein polynomials.
B0_t(t) == Cube(RSub(One, t))
B1_t(t) == RMul(RMul(RInt(3), t), RMul(RSub(One, t), RSub(One, t)))
B2_t(t) == RMul(RMul(RInt(3), RMul(t, t)), RSub(One, t))
B3_t(t) == Cube(t)

\* One coordinate of the curve at t.
BezierCoord(t, a, b, c, d) ==
    RAdd(RAdd(RAdd(RMul(B0_t(t), RInt(a)), RMul(B1_t(t), RInt(b))),
              RMul(B2_t(t), RInt(c))),
         RMul(B3_t(t), RInt(d)))

\* The point get_all_points appends for t: curve is
\* <<start, control1, control2, end>>.
BezierPoint(curve, t) ==
    <<BezierCoord(t, curve[1][1], curve[2][1], curve[3][1], curve[4][1]),
      BezierCoord(t, curve[1][2], curve[2][2], curve[3][2], curve[4][2])>>

\* The curves sampled.
Curves == { << <<0, 0>>, <<1, 2>>, <<3, 2>>, <<4, 0>> >>,
            << <<5, 1>>, <<5, 1>>, <<2, 7>>, <<2, 7>> >> }

MaxSegments == 10

\* The sample counts passed as segments: positive ones, zero, negative ones.
SegmentCounts == {-2, -1, 0} \cup (1..MaxSegments)

\* The passes of the loop of one call that are followed.
MaxPasses == MaxSegments + 3

\* get_all_points up to its loop: points = [], seg = 1 / segments, t = 0.
\* 1 / 0 raises ZeroDivisionError, which ends the call; done says that the
\* points were returned.
get_all_points(curve, segments) ==
    [fn |-> "get_all_points", curve |-> curve, segments |-> segments,
     seg |-> IF segments = 0 THEN Zero ELSE FloatDiv(One, RInt(segments)),
     raised |-> IF segments = 0 THEN "ZeroDivisionError" ELSE "none",
     t |-> Zero, ts |-> <<>>, points |-> <<>>, done |-> FALSE]

\* One pass of `while t <= 1`: the point at t is appended (ts records the
\* t it was evaluated at), then t += seg.
SampleStep ==
    /\ pure.fn = "get_all_points" /\ ~pure.done /\ pure.raised = "none"
    /\ Len(pure.points) < MaxPasses
    /\ ~RLt(One, pure.t)
    /\ pure' = [pure EXCEPT !.points = Append(@, BezierPoint(pure.curve, pure.t)),
                            !.ts = Append(@, pure.t),
                            !.t = FloatAdd(pure.t, pure.seg)]
    /\ UNCHANGED objectVars

\* The loop ends and the points are returned.
SampleReturn ==
    /\ pure.fn = "get_all_points" /\ ~pure.done /\ pure.raised = "none"
    /\ RLt(One, pure.t)
    /\ pure' = [pure EXCEPT !.done = TRUE]
    /\ UNCHANGED objectVars

\* C17: sampling a curve with N segments returns exactly N + 1 points, the
\* first the start point, the last the end point, the i-th evaluated at
\* t = i / N.
C17_SamplesNPlusOne ==
    (pure.fn = "get_all_points" /\ pure.done)
    => /\ Len(pure.points) = pure.segments + 1
       /\ pure.points[1] = <<RInt(pure.curve[1][1]), RInt(pure.curve[1][2])>>
       /\ pure.points[Len(pure.points)]
              = <<RInt(pure.curve[4][1]), RInt(pure.curve[4][2])>>
       /\ \A i \in DOMAIN pure.ts :
              pure.ts[i] = FloatDiv(RInt(i - 1), RInt(pure.segments))

(***************************************************************************)
(* path_utils: the mapping of SVG coordinates to the target.  A call       *)
(* returns its value or raises: Raise(e) stands for the exception e        *)
(* leaving the call.                                                       *)
(***************************************************************************)
Raise(e) == [raised |-> e]
Raised(v) == DOMAIN v = {"raised"}

\* a / b of Python: ZeroDivisionError when b is zero.
PyDiv(a, b) == IF b = Zero THEN Raise("ZeroDivisionError") ELSE RDiv(a, b)

transform_x(x_pos, target_x, target_width, svg_width) ==
    LET q == PyDiv(RMul(target_width, x_pos), svg_width)
    IN IF Raised(q) THEN q ELSE RAdd(target_x, q)

transform_y(y_pos, target_y, target_height, svg_height, flip_y) ==
    LET q == IF flip_y
             THEN PyDiv(RMul(target_height, RSub(svg_height, y_pos)), svg_height)
             ELSE PyDiv(RMul(target_height, y_pos), svg_height)
    IN IF Raised(q) THEN q ELSE RAdd(target_y, q)

\* [x, y]; an exception raised for x leaves before y is computed.
transform_point(complex_point, target_size, target_pos, svg_size, flip_y) ==
    LET x == transform_x(RInt(complex_point[1]), RInt(target_pos[1]),
                         RInt(target_size[1]), RInt(svg_size[1]))
        y == transform_y(RInt(complex_point[2]), RInt(target_pos[2]),
                         RInt(target_size[2]), RInt(svg_size[2]), flip_y)
    IN IF Raised(x) THEN x ELSE IF Raised(y) THEN y ELSE <<x, y>>

\* [*transform_point(p1), *transform_point(p2), ...], left to right.
RECURSIVE MapPoints(_, _, _, _, _)
MapPoints(pts, target_size, target_pos, svg_size, flip_y) ==
    IF pts = <<>> THEN <<>>
    ELSE LET h == transform_point(Head(pts), target_size, target_pos,
                                  svg_size, flip_y)
         IN IF Raised(h) THEN h
            ELSE LET r == MapPoints(Tail(pts), target_size, target_pos,
                                    svg_size, flip_y)
                 IN IF Raised(r) THEN r ELSE h \o r

\* bezier: <<start, control1, control2, end>>.
bezier_points(bezier, target_size, target_pos, svg_size, flip_y) ==
    MapPoints(bezier, target_size, target_pos, svg_size, flip_y)

\* line: <<start, end>>.
line_points(line, target_size, target_pos, svg_size, flip_y) ==
    MapPoints(line, target_size, target_pos, svg_size, flip_y)

\* The source sizes (a zero width or height among them), the target
\* positions and the target size of the calls.
SvgSizes == {<<4, 8>>, <<0, 8>>, <<4, 0>>, <<0, 0>>}
TargetPositions == {<<0, 0>>, <<10, 20>>}
TargetSize == <<100, 50>>

Mappers == {"transform_point", "line_points", "bezier_points"}

\* The call pure describes, made.
MapperResult(c) ==
    CASE c.fn = "transform_point" ->
             transform_point(c.curve[1], TargetSize, c.target_pos, c.svg_size,
                             c.flip_y)
      [] c.fn = "line_points" ->
             line_points(<<c.curve[1], c.curve[4]>>, TargetSize, c.target_pos,
                         c.svg_size, c.flip_y)
      [] c.fn = "bezier_points" ->
             bezier_points(c.curve, TargetSize, c.target_pos, c.svg_size,
                           c.flip_y)

ApplyMapper ==
    /\ pure.fn \in Mappers /\ pure.out = NoValue
    /\ pure' = [pure EXCEPT !.out = MapperResult(pure)]
    /\ UNCHANGED objectVars

MaxList  == 4   \* the longest list handed to find_center
MaxValue == 2   \* the largest number in such a list

\* The sorted lists of one to MaxList numbers.
SortedLists ==
    {l \in UNION {[1..n -> 0..MaxValue] : n \in 1..MaxList} :
        \A i \in 1..(Len(l) - 1) : l[i] <= l[i + 1]}

\* find_center(sorted_list); sorted_list[i] of Python is sorted_list[i + 1]
\* here.  middle % 2 is zero when middle is a whole even number.
find_center(sorted_list) ==
    LET middle == R(Len(sorted_list), 2)
    IN IF ~(middle[2] = 1 /\ middle[1] % 2 = 0)
       THEN RInt(sorted_list[RFloor(RSub(middle, R(1, 2))) + 1])
       ELSE RDiv(RInt(sorted_list[RFloor(middle) + 1]
                      + sorted_list[RFloor(RSub(middle, One)) + 1]),
                 RInt(2))

FindCenter ==
    /\ pure.fn = "find_center" /\ pure.out = NoValue
    /\ pure' = [pure EXCEPT !.out = find_center(pure.sorted_list)]
    /\ UNCHANGED objectVars

(***************************************************************************)
(* SpecPath: one call of a function of path_utils.                         *)
(***************************************************************************)
InitPath ==
    /\ NoObjects
    /\ \/ pure \in {get_all_points(c, n) : c \in Curves, n \in SegmentCounts}
       \/ pure \in [fn : Mappers, curve : Curves, target_pos : TargetPositions,
                    svg_size : SvgSizes, flip_y : BOOLEAN, out : {NoValue}]
       \/ pure \in [fn : {"find_center"}, sorted_list : SortedLists,
                    out : {NoValue}]

NextPath ==
    \/ SampleStep
    \/ SampleReturn
    \/ ApplyMapper
    \/ FindCenter

SpecPath == InitPath /\ [][NextPath]_vars

\* C32: get_all_points terminates and returns its points for every integer
\* passed as segments, positive, zero or negative: the call does not raise,
\* and every pass of its loop brings t nearer to the bound that ends the
\* loop, so that the loop is left and the points are returned.
C32_GetAllPointsTerminates ==
    /\ [](pure.fn = "get_all_points" => pure.raised = "none")
    /\ [][(pure.fn = "get_all_points" /\ Len(pure'.points) > Len(pure.points))
          => RLt(pure.t, pure'.t)]_vars

\* C18: mapping a point with a source size whose width or height is zero
\* fails with ConfigurationError.
C18_ZeroSourceSizeError ==
    (pure.fn \in Mappers /\ pure.out # NoValue
        /\ (pure.svg_size[1] = 0 \/ pure.svg_size[2] = 0))
    => pure.out = Raise("ConfigurationError")

\* C26: find_center returns the median of a sorted list of one number or
\* more: the middle number of a list of odd length, the average of the two
\* middle numbers of a list of even length.
C26_FindCenterIsMedian ==
    (pure.fn = "find_center" /\ pure.out # NoValue)
    => LET l == pure.sorted_list
           n == Len(l)
       IN IF n % 2 = 1
          THEN pure.out = RInt(l[(n + 1) \div 2])
          ELSE pure.out = R(l[n \div 2] + l[n \div 2 + 1], 2)

(***************************************************************************)
(* transform_path (src/kivg/text_to_svg.py).  A path string is a sequence  *)
(* of characters; the paths handed to it are the ones the glyph pen emits: *)
(* commands M x y, L x y and Z, whole coordinates, a command letter right  *)
(* after the numbers before it, numbers separated by one space.            *)
(***************************************************************************)
MaxCmds  == 3   \* commands in one glyph path
MaxCoord == 1   \* the largest coordinate of a glyph path (at most 9)

\* The commands of glyph outlines, and the outlines: they begin with M.
GlyphCmds ==
    [cmd : {"M", "L"}, nums : [1..2 -> 0..MaxCoord]]
        \cup [cmd : {"Z"}, nums : {<<>>}]
GlyphOutlines ==
    {o \in UNION {[1..n -> GlyphCmds] : n \in 1..MaxCmds} : o[1].cmd = "M"}

\* " ".join of the numbers of a command / SVGPathPen.getCommands: the path
\* string of an outline.
JoinNums(nums) ==
    LET F[i \in 0..Len(nums)] ==
            IF i = 0 THEN <<>>
            ELSE IF i = 1 THEN <<ToString(nums[1])>>
                 ELSE F[i - 1] \o <<" ", ToString(nums[i])>>
    IN F[Len(nums)]
getCommands(outline) ==
    LET F[i \in 0..Len(outline)] ==
            IF i = 0 THEN <<>>
            ELSE F[i - 1] \o <<outline[i].cmd>> \o JoinNums(outline[i].nums)
    IN F[Len(outline)]

\* char.isalpha() / char.isdigit(), for the characters of these paths.
IsAlpha(char) == char \in {"M", "L", "Z"}
IsDigit(char) == \E n \in 0..9 : ToString(n) = char

\* float(num_str) of a run of digits with an optional leading minus sign.
Float(num_str) ==
    LET neg == num_str # <<>> /\ num_str[1] = "-"
        F[i \in 0..Len(num_str)] ==
            IF i = 0 \/ num_str[i] = "-" THEN 0
            ELSE 10 * F[i - 1] + (CHOOSE n \in 0..9 : ToString(n) = num_str[i])
    IN IF neg THEN -F[Len(num_str)] ELSE F[Len(num_str)]

\* current_cmd is None.
NoCmd == "None"

\* The parse loop of transform_path from position i (path[i - 1] of Python)
\* on: the commands it has appended when the path is read, each with its
\* numbers.  A command is appended, at the next letter or at the end, only
\* when numbers were read for it.
RECURSIVE ParsePath(_, _, _, _, _)
ParsePath(path, i, commands, current_cmd, current_nums) ==
    LET flush == IF current_cmd # NoCmd /\ current_nums # <<>>
                 THEN Append(commands, [cmd |-> current_cmd, nums |-> current_nums])
                 ELSE commands
    IN IF i > Len(path) THEN flush
       ELSE IF IsAlpha(path[i])
            THEN ParsePath(path, i + 1, flush, path[i], <<>>)
       ELSE IF IsDigit(path[i]) \/ path[i] = "-"
            THEN LET from == IF path[i] = "-" THEN i + 1 ELSE i
                     stops == {j \in from..Len(path) : ~IsDigit(path[j])}
                     end == IF stops = {} THEN Len(path) + 1
                            ELSE CHOOSE j \in stops : \A k \in stops : j <= k
                     num_str == SubSeq(path, i, end - 1)
                 IN ParsePath(path, end, commands, current_cmd,
                              IF num_str # <<>> /\ num_str # <<"-">>
                              THEN Append(current_nums, Float(num_str))
                              ELSE current_nums)
       ELSE ParsePath(path, i + 1, commands, current_cmd, current_nums)

\* The new numbers of one parsed command: x, y pairs for M, L (and T, C, S,
\* Q the same way), none for Z; scale is 1.
NewNums(cmd, nums, x_offset, y_offset, flip_y) ==
    IF cmd \in {"M", "L"}
    THEN LET F[j \in 0..(Len(nums) \div 2)] ==
                 IF j = 0 THEN <<>>
                 ELSE F[j - 1] \o
                      << nums[2 * j - 1] + x_offset,
                         IF flip_y THEN -nums[2 * j] + y_offset
                         ELSE nums[2 * j] + y_offset >>
         IN F[Len(nums) \div 2]
    ELSE <<>>

\* transform_path(path, x_offset, y_offset, scale = 1, flip_y): the entries
\* of result, which the function joins into one string; an entry is the
\* command letter followed by its new numbers (whole numbers are formatted
\* without a fraction, as they were read).
transform_path(path, x_offset, y_offset, flip_y) ==
    IF path = <<>> THEN <<>>
    ELSE LET commands == ParsePath(path, 1, <<>>, NoCmd, <<>>)
         IN [k \in DOMAIN commands |->
                [cmd  |-> commands[k].cmd,
                 nums |-> NewNums(commands[k].cmd, commands[k].nums,
                                  x_offset, y_offset, flip_y)]]

\* The offsets a glyph is placed with.
GlyphOffsets == {<<0, 0>>, <<2, 3>>}

InitGlyph ==
    /\ NoObjects
    /\ pure \in [fn : {"transform_path"}, outline : GlyphOutlines,
                 offset : GlyphOffsets, flip_y : BOOLEAN,
                 path : {<<>>}, out : {NoValue}, done : {FALSE}]

\* get_glyph_path: the pen draws the glyph and gives its path string.
GetGlyphPath ==
    /\ pure.fn = "transform_path" /\ pure.path = <<>>
    /\ pure' = [pure EXCEPT !.path = getCommands(pure.outline)]
    /\ UNCHANGED objectVars

TransformPath ==
    /\ pure.fn = "transform_path" /\ pure.path # <<>> /\ ~pure.done
    /\ pure' = [pure EXCEPT !.done = TRUE,
                            !.out = transform_path(pure.path, pure.offset[1],
                                                   pure.offset[2], pure.flip_y)]
    /\ UNCHANGED objectVars

NextGlyph ==
    \/ GetGlyphPath
    \/ TransformPath

SpecGlyph == InitGlyph /\ [][NextGlyph]_vars

\* C29: the output of transform_path has the command letters of its input,
\* in the same order, every Z between sub-paths and at the end included.
C29_CommandsPreserved ==
    (pure.fn = "transform_path" /\ pure.done)
    => /\ Len(pure.out) = Len(pure.outline)
       /\ \A k \in DOMAIN pure.outline : pure.out[k].cmd = pure.outline[k].cmd

(***************************************************************************)
(* Timeline: the animations of a draw, combined by                         *)
(* AnimationHandler.create_animation_sequence into one sequential or       *)
(* parallel animation, and advanced by the host clock.  A unit is an       *)
(* animation of the list, given by its duration.                           *)
(***************************************************************************)
MaxUnits    == 3   \* animations in one anim_list
MaxDuration == 3   \* the longest duration of one animation

\* draw(svg_file, animate, anim_type): what a caller may pass as anim_type.
AnimTypes == {"seq", "par", "other", "SEQ", ""}

\* The anim_type handed on as it was given.
NormalAnimType_Verbatim(anim_type) == anim_type

\* anim_type = anim_type if anim_type in ("seq", "par") else "seq"
NormalAnimType(anim_type) ==
    IF anim_type \in {"seq", "par"} THEN anim_type ELSE "seq"

\* The lists of durations of at least one and at most MaxUnits animations.
AnimLists == UNION {[1..n -> 1..MaxDuration] : n \in 1..MaxUnits}

\* The time the host clock may add in one tick.
TickDeltas == {R(1, 2), One}

Max(S) == CHOOSE x \in S : \A y \in S : y <= x

\* The total duration of the first k animations of the list.
RECURSIVE DurationOfFirst(_, _)
DurationOfFirst(anim_list, k) ==
    IF k = 0 THEN 0 ELSE DurationOfFirst(anim_list, k - 1) + anim_list[k]

\* The combination that runs every animation from the start, whatever the
\* mode.
create_animation_sequence_AllAtOnce(anim_list, sequential) ==
    [k \in 1..Len(anim_list) |->
        [start_offset |-> 0, duration |-> anim_list[k]]]

\* create_animation_sequence(anim_list, sequential): the units of the
\* combined animation; sequential chains each animation after the ones
\* before it, parallel starts them together.
create_animation_sequence(anim_list, sequential) ==
    [k \in 1..Len(anim_list) |->
        [start_offset |-> IF sequential THEN DurationOfFirst(anim_list, k - 1)
                          ELSE 0,
         duration     |-> anim_list[k]]]

\* The duration of the combined animation.
horizon(units) ==
    Max({units[k].start_offset + units[k].duration : k \in DOMAIN units})

\* The progress of unit u when the combined animation has run for elapsed.
local(u, elapsed) ==
    LET x == RDiv(RSub(elapsed, RInt(u.start_offset)), RInt(u.duration))
    IN IF RLt(x, Zero) THEN Zero ELSE IF RLt(One, x) THEN One ELSE x

InitTimeline ==
    /\ NoObjects
    /\ pure \in [fn : {"timeline"}, anim_type : AnimTypes, anim_list : AnimLists,
                 built : {FALSE}, sequential : {FALSE}, units : {<<>>},
                 horizon : {0}, elapsed : {Zero}, locals : {<<>>}]

\* draw, animate being set: the animations are combined and started.
CreateTimeline ==
    /\ pure.fn = "timeline" /\ ~pure.built
    /\ LET sequential == (NormalAnimType(pure.anim_type) = "seq")
           units == create_animation_sequence(pure.anim_list, sequential)
       IN pure' = [pure EXCEPT !.built = TRUE,
                               !.sequential = sequential,
                               !.units = units,
                               !.horizon = horizon(units),
                               !.locals = [k \in DOMAIN units |->
                                               local(units[k], Zero)]]
    /\ UNCHANGED objectVars

\* One tick of the host clock on the combined animation, which ticks until
\* its duration has passed.
TimelineTick ==
    \E dt \in TickDeltas :
        /\ pure.fn = "timeline" /\ pure.built
        /\ RLt(pure.elapsed, RInt(pure.horizon))
        /\ LET elapsed == RAdd(pure.elapsed, dt)
           IN pure' = [pure EXCEPT !.elapsed = elapsed,
                                   !.locals = [k \in DOMAIN pure.units |->
                                                   local(pure.units[k], elapsed)]]
        /\ UNCHANGED objectVars

NextTimeline ==
    \/ CreateTimeline
    \/ TimelineTick

SpecTimeline == InitTimeline /\ [][NextTimeline]_vars

\* C20: in sequential mode the first unit starts at 0, every other unit
\* where the one before it ends, and the horizon is where the last one ends
\* (durations 1, 2, 3: horizon 6, and at elapsed 1.5 unit 0 is complete and
\* unit 1 has local progress 0.25); in parallel mode every unit starts at 0
\* and the horizon is the largest duration (three units of duration 2 all
\* have local progress 0.5 at elapsed 1).
C20_TimelineComposition ==
    (pure.fn = "timeline" /\ pure.built)
    => LET u == pure.units
           d == pure.anim_list
           n == Len(d)
       IN /\ Len(u) = n
          /\ pure.sequential
             => /\ u[1].start_offset = 0
                /\ \A k \in 1..(n - 1) :
                       u[k + 1].start_offset = u[k].start_offset + d[k]
                /\ pure.horizon = u[n].start_offset + d[n]
                /\ d = <<1, 2, 3>>
                   => /\ pure.horizon = 6
                      /\ pure.elapsed = R(3, 2)
                         => pure.locals[1] = One /\ pure.locals[2] = R(1, 4)
          /\ ~pure.sequential
             => /\ \A k \in 1..n : u[k].start_offset = 0
                /\ \A k \in 1..n : d[k] <= pure.horizon
                /\ \E k \in 1..n : d[k] = pure.horizon
                /\ (d = <<2, 2, 2>> /\ pure.elapsed = One)
                   => \A k \in 1..n : pure.locals[k] = R(1, 2)

\* C20's case: the sequential animation of durations 1, 2, 3 has run for
\* 1.5 and its second unit is a quarter through.
C20_Witness ==
    /\ pure.fn = "timeline" /\ pure.built /\ pure.sequential
    /\ pure.anim_list = <<1, 2, 3>> /\ pure.elapsed = R(3, 2)
    /\ pure.locals = <<One, R(1, 4), Zero>>

\* C21: an animated draw with an anim_type other than "seq" and "par"
\* composes its animations with sequential = True, as "seq" does: the units
\* are chained, each starting where the one before it ends.
C21_UnknownModeIsSequential ==
    (pure.fn = "timeline" /\ pure.built /\ pure.anim_type \notin {"seq", "par"})
    => /\ pure.sequential
       /\ pure.units = create_animation_sequence(pure.anim_list, TRUE)

\* C21's case: a draw with an unknown anim_type has started two animations
\* or more, the second after the first.
C21_Witness ==
    /\ pure.fn = "timeline" /\ pure.built
    /\ pure.anim_type \in {"other", "SEQ", ""}
    /\ Len(pure.units) >= 2 /\ pure.units[2].start_offset > 0

(***************************************************************************)
(* Text (src/kivg/text_to_svg.py).  A text is a sequence of characters,    *)
(* each a one-character string.                                            *)
(***************************************************************************)
MaxText == 3   \* characters in one text

\* The characters of the texts: letters, the space, the line feed, and the
\* tabulator, a character that is no space and that fonts have no outline
\* for.
Chars == {"a", "b", " ", "\n", "\t"}
Texts == UNION {[1..n -> Chars] : n \in 0..MaxText}

\* text.split('\n'): the lines of the text, one more than it has line feeds.
Split(text) ==
    LET F[i \in 0..Len(text)] ==
            IF i = 0 THEN <<<<>>>>
            ELSE IF text[i] = "\n" THEN Append(F[i - 1], <<>>)
                 ELSE [F[i - 1] EXCEPT ![Len(F[i - 1])] = Append(@, text[i])]
    IN F[Len(text)]

\* f"char_{line_idx}_{char_idx}"
CharId(line_idx, char_idx) ==
    "char_" \o ToString(line_idx) \o "_" \o ToString(char_idx)

\* None, as the value of from_.
NoDirection == "None"

\* direction_map.get(animation_type, None)
direction_map(animation_type) ==
    CASE animation_type = "sequential"    -> NoDirection
      [] animation_type = "from_left"     -> "left"
      [] animation_type = "from_right"    -> "right"
      [] animation_type = "from_top"      -> "top"
      [] animation_type = "from_bottom"   -> "bottom"
      [] animation_type = "from_center_x" -> "center_x"
      [] animation_type = "from_center_y" -> "center_y"
      [] OTHER                            -> NoDirection

\* The config that numbers every character of a line, the spaces too.
get_text_animation_config_CountSpaces(text, animation_type, duration_per_char, transition) ==
    LET direction == direction_map(animation_type)
        lines == Split(text)
        OfLine(line, line_idx) ==
            LET F[i \in 0..Len(line)] ==
                    IF i = 0 THEN <<>>
                    ELSE IF line[i] # " "
                         THEN Append(F[i - 1],
                                     [id_ |-> CharId(line_idx, i - 1),
                                      from_ |-> direction, t |-> transition,
                                      d |-> duration_per_char])
                         ELSE F[i - 1]
            IN F[Len(line)]
        G[l \in 0..Len(lines)] ==
            IF l = 0 THEN <<>> ELSE G[l - 1] \o OfLine(lines[l], l - 1)
    IN G[Len(lines)]

\* get_text_animation_config(text, animation_type, duration_per_char,
\* transition): char_idx counts the characters of the line that are no space.
get_text_animation_config(text, animation_type, duration_per_char, transition) ==
    LET direction == direction_map(animation_type)
        lines == Split(text)
        OfLine(line, line_idx) ==
            LET F[i \in 0..Len(line)] ==
                    IF i = 0 THEN [config |-> <<>>, char_idx |-> 0]
                    ELSE IF line[i] # " "
                         THEN [config |->
                                   Append(F[i - 1].config,
                                          [id_ |-> CharId(line_idx, F[i - 1].char_idx),
                                           from_ |-> direction, t |-> transition,
                                           d |-> duration_per_char]),
                               char_idx |-> F[i - 1].char_idx + 1]
                         ELSE F[i - 1]
            IN F[Len(line)].config
        G[l \in 0..Len(lines)] ==
            IF l = 0 THEN <<>> ELSE G[l - 1] \o OfLine(lines[l], l - 1)
    IN G[Len(lines)]

\* The font: its cmap has the letters and the space and not the tabulator;
\* the outline of a letter, the width of a glyph, the ascender and the line
\* height, in pixels (the scale is 1, letter_spacing is 0).
InCmap(char) == char \in {"a", "b", " "}
Outline(char) ==
    IF char = "a"
    THEN << [cmd |-> "M", nums |-> <<0, 0>>], [cmd |-> "L", nums |-> <<1, 1>>],
            [cmd |-> "Z", nums |-> <<>>] >>
    ELSE << [cmd |-> "M", nums |-> <<0, 1>>], [cmd |-> "L", nums |-> <<1, 0>>] >>
GlyphWidth == 1
Ascender == 1
LineHeight == 2

\* get_glyph_path(font, char): the path string and the width; "", 0 for a
\* character that is not in the cmap.
get_glyph_path(char) ==
    IF ~InCmap(char) THEN [path_string |-> <<>>, glyph_width |-> 0]
    ELSE [path_string |-> getCommands(Outline(char)), glyph_width |-> GlyphWidth]

\* text_to_svg_paths(text): the <path> elements of paths, each with its id
\* and its d.  A space advances current_x and is not counted; any other
\* character is counted by non_space_char_idx, and gets a path when its
\* glyph has a path string.
text_to_svg_paths(text) ==
    LET lines == Split(text)
        OfLine(line, line_idx) ==
            LET current_y == Ascender + line_idx * LineHeight
                F[i \in 0..Len(line)] ==
                    IF i = 0
                    THEN [paths |-> <<>>, current_x |-> 0, non_space_char_idx |-> 0]
                    ELSE IF line[i] = " "
                         THEN [F[i - 1] EXCEPT !.current_x = @ + GlyphWidth]
                    ELSE LET glyph == get_glyph_path(line[i])
                             char_id == CharId(line_idx, F[i - 1].non_space_char_idx)
                         IN [paths |->
                                 IF glyph.path_string # <<>>
                                 THEN Append(F[i - 1].paths,
                                             [id |-> char_id,
                                              d |-> transform_path(
                                                        glyph.path_string,
                                                        F[i - 1].current_x,
                                                        current_y, TRUE)])
                                 ELSE F[i - 1].paths,
                             current_x |-> F[i - 1].current_x + glyph.glyph_width,
                             non_space_char_idx |-> F[i - 1].non_space_char_idx + 1]
            IN F[Len(line)].paths
        G[l \in 0..Len(lines)] ==
            IF l = 0 THEN <<>> ELSE G[l - 1] \o OfLine(lines[l], l - 1)
    IN G[Len(lines)]

\* What a caller may pass as animation_type ("from_center" is named by the
\* docstring and is no key of direction_map), as duration_per_char (in
\* tenths of a second) and as transition.
AnimationTypes == {"sequential", "from_left", "from_right", "from_top",
                   "from_bottom", "from_center_x", "from_center_y",
                   "from_center"}
TextDurations == {1, 2}
TextTransitions == {"out_sine", "linear"}

InitText ==
    /\ NoObjects
    /\ pure \in [fn : {"text"}, text : Texts, animation_type : AnimationTypes,
                 duration_per_char : TextDurations, transition : TextTransitions,
                 called : {{}}, config : {<<>>}, paths : {<<>>}]

GetTextAnimationConfig ==
    /\ pure.fn = "text" /\ "config" \notin pure.called
    /\ pure' = [pure EXCEPT
                   !.called = @ \cup {"config"},
                   !.config = get_text_animation_config(
                                  pure.text, pure.animation_type,
                                  pure.duration_per_char, pure.transition)]
    /\ UNCHANGED objectVars

\* text_animate writes the paths of the text to the SVG file it animates.
TextToSvgPaths ==
    /\ pure.fn = "text" /\ "paths" \notin pure.called
    /\ pure' = [pure EXCEPT !.called = @ \cup {"paths"},
                            !.paths = text_to_svg_paths(pure.text)]
    /\ UNCHANGED objectVars

NextText ==
    \/ GetTextAnimationConfig
    \/ TextToSvgPaths

SpecText == InitText /\ [][NextText]_vars

\* The positions of the text that hold a character other than the space and
\* the line feed, the line such a position is on, and the number of such
\* positions before it on its line.
Inked(text) == {p \in 1..Len(text) : text[p] \notin {" ", "\n"}}
LineOf(text, p) == Cardinality({q \in 1..(p - 1) : text[q] = "\n"})
InkedBefore(text, p) ==
    Cardinality({q \in Inked(text) : q < p /\ LineOf(text, q) = LineOf(text, p)})

C27_ConfigIdsArePathIds ==
    (pure.fn = "text" /\ pure.called = {"config", "paths"})
    => {pure.config[k].id_ : k \in DOMAIN pure.config}
           = {pure.paths[k].id : k \in DOMAIN pure.paths}

(***************************************************************************)
(* MockPenTracker (src/tests/test_pen_tracker.py): the tracker the unit    *)
(* tests exercise, without graphics and without the Clock.  _hand_group,   *)
(* _hand_rect, _hand_color and _slide_out_event hold MagicMock objects.    *)
(***************************************************************************)
AMagicMock == 1   \* a MagicMock held where the tracker holds a Kivy object

MockPenTracker ==
    [ _hand_texture       |-> TRUE,
      _hand_group         |-> NoGroup,
      _hand_color         |-> NoColor,
      _is_active          |-> FALSE,
      _current_pos        |-> <<0, 0>>,
      _slide_out_event    |-> NoEvent,
      _slide_out_callback |-> NoCb,
      _slide_start_pos    |-> <<0, 0>>,
      _slide_target_pos   |-> <<0, 0>>,
      _slide_progress     |-> 0 ]

Mock_start(t) ==
    IF ~t._hand_texture THEN t
    ELSE [t EXCEPT !._is_active  = TRUE,
                   !._hand_group = AMagicMock,
                   !._hand_color = PosScale]

Mock_clear_hand(t) ==
    [t EXCEPT !._hand_group = NoGroup, !._hand_color = NoColor]

Mock_stop(t) ==
    Mock_clear_hand([t EXCEPT !._slide_out_event    = NoEvent,
                              !._slide_out_callback = NoCb,
                              !._is_active          = FALSE])

\* hand_y = y - (hand_size[1] - pen_offset[1])
Mock_update_position(t, x, y) ==
    IF ~t._is_active \/ ~t._hand_texture THEN t
    ELSE [t EXCEPT !._current_pos =
              <<(x - PenOffsetX) * PosScale,
                (y - (HandH - PenOffsetY)) * PosScale>>]

Mock_slide_out(t, on_complete) ==
    IF ~t._is_active \/ ~t._hand_texture
    THEN [trk |-> t, fired |-> on_complete]
    ELSE LET widget_bottom == (WidgetPosY - HandH) * PosScale
         IN [trk |-> [t EXCEPT
                 !._slide_out_callback = on_complete,
                 !._slide_start_pos    = t._current_pos,
                 !._slide_target_pos   = <<t._current_pos[1], widget_bottom>>,
                 !._slide_progress     = 0,
                 !._slide_out_event    = AMagicMock],
             fired |-> NoCb]

Mock_finish_slide_out(t) ==
    [trk |-> Mock_clear_hand([t EXCEPT !._slide_out_event    = NoEvent,
                                       !._is_active          = FALSE,
                                       !._slide_out_callback = NoCb]),
     fired |-> t._slide_out_callback]

Mock_update_slide_out(t, dt) ==
    LET p == t._slide_progress + dt IN
    IF p >= SlideUnits
    THEN LET f == Mock_finish_slide_out([t EXCEPT !._slide_progress = SlideUnits])
         IN [trk |-> f.trk, fired |-> f.fired, cont |-> FALSE]
    ELSE [trk |-> [t EXCEPT
              !._slide_progress = p,
              !._current_pos =
                  <<Lerp(t._slide_start_pos[1], t._slide_target_pos[1], Ease(p)),
                    Lerp(t._slide_start_pos[2], t._slide_target_pos[2], Ease(p))>>,
              !._hand_color = IF t._hand_color # NoColor
                              THEN PosScale - Ease(p) ELSE @],
          fired |-> NoCb, cont |-> TRUE]

(***************************************************************************)
(* SpecMock: a PenTracker whose marker image was loaded and a              *)
(* MockPenTracker, the same calls made on both.  pure holds the mock, how  *)
(* often each of the two has called the completion callback, the number of *)
(* slide_out calls, and whether a slide_out has set the exit-animation     *)
(* attributes that _update_slide_out reads.                                *)
(***************************************************************************)
\* on_complete: None or the callback.
TheCallback == 1

mockRest == <<mocks, _pen_tracker, _show_hand, _current_pen_pos, all_anim,
              curr_count, prev_shapes, curr_shape, curr_id, curr_clr,
              widget_props, running, session, user_done, completed, live_call,
              _previous_svg_file, document, calls>>

Count(fired) == IF fired = NoCb THEN 0 ELSE 1

InitMock ==
    /\ trackers = <<PenTracker(TRUE)>>
    /\ mocks = [c \in CbIds |-> NewMock]
    /\ lastOp = Op("init", 0, NoCb, FALSE)
    /\ KivgInit
    /\ pure = [fn |-> "mock", mock_pen_tracker |-> MockPenTracker,
               real_calls |-> 0, mock_calls |-> 0, slide_outs |-> 0,
               slid |-> FALSE]

BothStart ==
    /\ pure.fn = "mock" /\ FreeGroups(trackers[1]) # {}
    /\ trackers' = [trackers EXCEPT ![1] = start(@)]
    /\ pure' = [pure EXCEPT !.mock_pen_tracker = Mock_start(@)]
    /\ lastOp' = Op("start", 0, NoCb, FALSE)
    /\ UNCHANGED mockRest

BothStop ==
    /\ pure.fn = "mock"
    /\ trackers' = [trackers EXCEPT ![1] = stop(@)]
    /\ pure' = [pure EXCEPT !.mock_pen_tracker = Mock_stop(@)]
    /\ lastOp' = Op("stop", 0, NoCb, FALSE)
    /\ UNCHANGED mockRest

BothUpdatePosition ==
    \E tip \in Tips :
        /\ pure.fn = "mock"
        /\ trackers' = [trackers EXCEPT ![1] = update_position(@, tip[1], tip[2])]
        /\ pure' = [pure EXCEPT
                       !.mock_pen_tracker = Mock_update_position(@, tip[1], tip[2])]
        /\ lastOp' = Op("update_position", tip, NoCb, FALSE)
        /\ UNCHANGED mockRest

BothSlideOut ==
    \E on_complete \in {NoCb, TheCallback} :
        /\ pure.fn = "mock" /\ pure.slide_outs < MaxCb
        /\ FreeEvents(trackers[1]) # {}
        /\ LET r == slide_out(trackers[1], on_complete)
               m == Mock_slide_out(pure.mock_pen_tracker, on_complete)
           IN /\ trackers' = [trackers EXCEPT ![1] = r.trk]
              /\ pure' = [pure EXCEPT
                             !.mock_pen_tracker = m.trk,
                             !.real_calls = @ + Count(r.fired),
                             !.mock_calls = @ + Count(m.fired),
                             !.slide_outs = @ + 1,
                             !.slid = @ \/ is_active(trackers[1])]
              /\ lastOp' = Op("slide_out", on_complete, r.fired, FALSE)
        /\ UNCHANGED mockRest

\* _update_slide_out(dt), called as the tests call it, not by the Clock.
BothUpdateSlideOut ==
    \E dt \in Dts :
        /\ pure.fn = "mock" /\ pure.slid
        /\ LET r == _update_slide_out(trackers[1], dt)
               m == Mock_update_slide_out(pure.mock_pen_tracker, dt)
           IN /\ trackers' = [trackers EXCEPT ![1] = r.trk]
              /\ pure' = [pure EXCEPT
                             !.mock_pen_tracker = m.trk,
                             !.real_calls = @ + Count(r.fired),
                             !.mock_calls = @ + Count(m.fired)]
              /\ lastOp' = Op("_update_slide_out", dt, r.fired, ~r.cont)
        /\ UNCHANGED mockRest

BothFinishSlideOut ==
    /\ pure.fn = "mock"
    /\ LET r == _finish_slide_out(trackers[1])
           m == Mock_finish_slide_out(pure.mock_pen_tracker)
       IN /\ trackers' = [trackers EXCEPT ![1] = r.trk]
          /\ pure' = [pure EXCEPT
                         !.mock_pen_tracker = m.trk,
                         !.real_calls = @ + Count(r.fired),
                         !.mock_calls = @ + Count(m.fired)]
          /\ lastOp' = Op("_finish_slide_out", 0, r.fired, TRUE)
    /\ UNCHANGED mockRest

NextMock ==
    \/ BothStart
    \/ BothStop
    \/ BothUpdatePosition
    \/ BothSlideOut
    \/ BothUpdateSlideOut
    \/ BothFinishSlideOut

SpecMock == InitMock /\ [][NextMock]_vars

\* C28: after the same calls the MockPenTracker and the PenTracker have the
\* same is_active, the same current position, the same start and target
\* position and progress of the exit animation, and have called the
\* completion callback the same number of times.
C28_MockMirrorsPenTracker ==
    pure.fn = "mock"
    => LET real == trackers[1]
           mock == pure.mock_pen_tracker
       IN /\ is_active(mock) = is_active(real)
          /\ current_position(mock) = current_position(real)
          /\ mock._slide_start_pos = real._slide_start_pos
          /\ mock._slide_target_pos = real._slide_target_pos
          /\ mock._slide_progress = real._slide_progress
          /\ pure.mock_calls = pure.real_calls

====
